---- MODULE Spec2Model ----
(***************************************************************************)
(* Model of the job-posting scraper (job_posting_scraper.py):              *)
(* page discovery, the parallel job-detail phase, status reconciliation    *)
(* against the record files on disk, and the failure log, over several     *)
(* runs of the program against the same output directory.                  *)
(***************************************************************************)
EXTENDS Naturals, Sequences, FiniteSets

VARIABLES
    \* ---- durable state (the output directory) ----
    disk,             \* job id -> "absent" | "corrupt" | the stored record
    failed_log,       \* failed_jobs.json: "absent" or the list last written
    \* ---- one run of JobPostingScraper.run ----
    run,              \* number of the current run; also the clock of timestamps
    fetches,          \* job-detail tasks submitted so far, over all runs
    pc,               \* position of the main thread
    max_workers,      \* self.max_workers
    total_pages,      \* pages to fetch, after the max_pages limit
    page_st,          \* page number -> state of its fetch task
    page_res,         \* page number -> URLs returned by its task
    all_job_urls,     \* set being aggregated by get_job_urls_from_search_pages
    job_urls,         \* the job list of the detail phase
    st,               \* job url -> state of its task
    response,         \* job url -> what its detail request was answered with
    result,           \* job url -> job_data returned by its worker
    pending,          \* job url -> record about to be written by save_job_data
    completed_count,  \* self.completed_count
    total_count,      \* self.total_count
    successful_jobs,  \* local counter of run()
    scraped_jobs,     \* self.scraped_jobs
    failed_jobs,      \* self.failed_jobs
    \* ---- the per-page extraction, checked on its own ----
    pg_links,         \* the anchors of one result page, in page order
    pg_i,             \* number of anchors consumed by the loop
    job_urls_by_id,   \* the dict built by extract_job_urls_from_page
    \* ---- the page count, checked on its own ----
    html,             \* what page 1 shows of "Displaying N out of M jobs"
    clock,            \* datetime.now(), in the check of the timestamps
    progress_lock,    \* self.progress_lock, in the check of termination
    results_lock,     \* self.results_lock, in the check of termination
    \* ---- the skill-count scraper (job_scraper_enhanced.py), checked on its own ----
    original_data,    \* the skill tree loaded from the JSON file
    leaf_nodes,       \* the leaves to scrape, after the limit
    job_counts,       \* skill id -> count, as the collecting loop builds it
    enhanced_tree,    \* self.enhanced_tree
    max_pages,        \* the max_pages argument (0: not given)
    page_data,        \* the (page_num, url) list of the parallel fetch
    \* ---- the pacing sleep of a worker, checked on its own ----
    thread_ident,     \* threading.current_thread().ident of the worker
    delay,            \* the delay argument, in tenths of a second
    slept             \* what the worker passed to time.sleep, in 1/200 s

treeVars == << original_data, leaf_nodes, job_counts, enhanced_tree >>

vars == << disk, failed_log, run, fetches, pc, max_workers, total_pages, page_st, page_res,
           all_job_urls, job_urls, st, response, result, pending, completed_count,
           total_count, successful_jobs, scraped_jobs, failed_jobs,
           pg_links, pg_i, job_urls_by_id, html, clock, progress_lock, results_lock,
           treeVars, max_pages, page_data,
           thread_ident, delay, slept >>

runVars == << disk, failed_log, run, fetches, pc, max_workers, total_pages, page_st, page_res,
              all_job_urls, job_urls, st, response, result, pending, completed_count,
              total_count, successful_jobs, scraped_jobs, failed_jobs >>

pageVars == << pg_links, pg_i, job_urls_by_id, html, clock, progress_lock, results_lock,
           treeVars, max_pages, page_data,
           thread_ident, delay, slept >>

(***************************************************************************)
(* Bounds of the model.                                                    *)
(***************************************************************************)
MaxRuns == 2
MaxWorkers == 2
MaxPages == 2
MaxJobs == 2
MaxLinks == 3
\* job-detail tasks submitted over all the runs of one behaviour
MaxFetches == 2
\* digits of the total M shown on page 1
MaxCountDigits == 3
\* thread identities of the workers
MaxIdent == 40
\* readings of the clock that differ, in the check of the timestamps
MaxClock == 3
\* nesting of the branches of a skill tree
MaxDepth == 2
\* largest job count a skill page shows
MaxCount == 2

(***************************************************************************)
(* URLs.  An href is the part after ".../jobseekers/job/" as a sequence    *)
(* of characters, plus whether it is written with scheme and host.         *)
(***************************************************************************)
\* Python's None where an id is expected: no digits at all
None == <<>>

Digits == {"1", "2"}

\* len("https://www.onlinejobs.ph")
HostLen == 25
\* len("/jobseekers/job/")
JobPathLen == 16

Href(abs, tail) == [abs |-> abs, tail |-> tail]

\* urljoin(base_url, href): a host-less href gets the host of the base URL
urljoin(href) == [abs |-> TRUE, tail |-> href.tail]

\* len(full_url)
UrlLen(u) == (IF u.abs THEN HostLen ELSE 0) + JobPathLen + Len(u.tail)

\* (\d+)/?$ : the digits of s when s is digits, optionally followed by "/"
DigitsToEnd(s) ==
    LET body == IF Len(s) > 0 /\ s[Len(s)] = "/" THEN SubSeq(s, 1, Len(s) - 1) ELSE s
    IN IF Len(body) > 0 /\ \A k \in 1..Len(body) : body[k] \in Digits
       THEN body ELSE None

extract_job_id_from_url(u) ==
    LET t == u.tail
        \* r'/job/.*?-(\d+)/?$' : the lazy prefix stops at the first "-" after
        \* which only digits (and one optional "/") remain
        hits == {i \in 1..Len(t) :
                    t[i] = "-" /\ DigitsToEnd(SubSeq(t, i + 1, Len(t))) # None}
        first == CHOOSE i \in hits : \A j \in hits : i <= j
    IN IF hits # {} THEN DigitsToEnd(SubSeq(t, first + 1, Len(t)))
       \* r'/job/(\d+)/?$'
       ELSE DigitsToEnd(t)

(***************************************************************************)
(* extract_job_urls_from_page: one iteration of the loop over the anchors, *)
(* and the whole function.                                                 *)
(***************************************************************************)
\* as PageLinkStep, but the last link of a job replaces what was kept
PageLinkStep_LastWins(d, href) ==
    LET full_url == urljoin(href)
        job_id == extract_job_id_from_url(full_url)
    IN IF job_id # None
       THEN [k \in DOMAIN d \cup {job_id} |-> IF k = job_id THEN full_url ELSE d[k]]
       ELSE d

PageLinkStep(d, href) ==
    LET full_url == urljoin(href)
        job_id == extract_job_id_from_url(full_url)
    IN IF job_id # None
          /\ (job_id \notin DOMAIN d \/ UrlLen(full_url) > UrlLen(d[job_id]))
       THEN [k \in DOMAIN d \cup {job_id} |-> IF k = job_id THEN full_url ELSE d[k]]
       ELSE d

EmptyDict == [k \in {} |-> None]

RECURSIVE PageLoop(_, _)
PageLoop(links, n) ==
    IF n = 0 THEN EmptyDict ELSE PageLinkStep(PageLoop(links, n - 1), links[n])

\* list(job_urls_by_id.values()), as the set of its elements
extract_job_urls_from_page(links) ==
    LET d == PageLoop(links, Len(links)) IN {d[k] : k \in DOMAIN d}

(***************************************************************************)
(* The site as the runs see it: the result pages that can be served and    *)
(* the links they carry.                                                   *)
(***************************************************************************)
ShortUrl1 == Href(TRUE, <<"1">>)
LongUrl1 == Href(FALSE, <<"w", "-", "1">>)
ShortUrl2 == Href(FALSE, <<"2">>)

\* anchors of the result pages served to a run, in page order
SearchPages ==
    { <<ShortUrl1, LongUrl1>>, <<ShortUrl1>>, <<LongUrl1, ShortUrl2>>, <<>> }

\* page 1 shows "Displaying N out of M jobs" with these digits of M, or not at all
NoCount == [kind |-> "none", digits |-> <<>>]
CountText(digits) == [kind |-> "count", digits |-> digits]

FirstPageTexts ==
    { NoCount, CountText(<<"3", "0">>), CountText(<<"3", "1">>),
      CountText(<<"9", "5", "4">>) }

\* hrefs a single result page is drawn from when the extraction is checked alone
PageHrefs ==
    { ShortUrl1, LongUrl1, ShortUrl2,
      Href(TRUE, <<"x", "-", "1">>), Href(FALSE, <<"1">>),
      Href(FALSE, <<"w", "-", "2", "/">>), Href(FALSE, <<"1", "?">>) }

JobIds ==
    {extract_job_id_from_url(urljoin(h)) : h \in PageHrefs \cup {ShortUrl1, LongUrl1, ShortUrl2}}
        \ {None}

RECURSIVE SeqsUpTo(_, _)
SeqsUpTo(S, n) ==
    IF n = 0 THEN {<<>>}
    ELSE LET shorter == SeqsUpTo(S, n - 1)
         IN shorter \cup {Append(q, x) : q \in shorter, x \in S}

(***************************************************************************)
(* Records.                                                                *)
(***************************************************************************)
Absent == [kind |-> "absent"]
Corrupt == [kind |-> "corrupt"]
NoResult == [kind |-> "none"]

HistoryEntry(status, now, reason) ==
    [status |-> status, timestamp |-> now, reason |-> reason]

FailureRecord(url, error, now) == [url |-> url, error |-> error, timestamp |-> now]

ErrorResult(error, job_id, url) ==
    [kind |-> "error", error |-> error, job_id |-> job_id, url |-> url]

(***************************************************************************)
(* Detail pages.  A page is what the selectors and patterns of             *)
(* scrape_job_details find in it: the text under each title selector (""   *)
(* when the selector matches nothing), the value after each label (Null    *)
(* when the label is not in the text), and the three places skills are     *)
(* looked for.  A skill is the sequence of its words; a text is the        *)
(* sequence of its words and of the separators "," and "\n" between them.  *)
(***************************************************************************)
\* Python's None where a text is expected
Null == "<None>"

Sentinel == "Job Unavailable"

\* title_selectors = ['h1', '.job-title', '#job-title', 'title']
NoTitles == <<"", "", "", "">>

\* skill_links: the text of each a.card-worker-topskill; section_elems: the
\* text of each sibling after the SKILL REQUIREMENT heading; text_span: the
\* flattened text between that heading and the next section
DetailPage(titles, body) ==
    [kind |-> "page", titles |-> titles,
     type_of_work |-> body.type_of_work, salary |-> body.salary,
     hours_per_week |-> body.hours_per_week, date_updated |-> body.date_updated,
     job_overview |-> body.job_overview, skill_links |-> body.skill_links,
     section_elems |-> body.section_elems, text_span |-> body.text_span]

EmptyBody ==
    [type_of_work |-> Null, salary |-> Null, hours_per_week |-> Null,
     date_updated |-> Null, job_overview |-> Null, skill_links |-> <<>>,
     section_elems |-> <<>>, text_span |-> <<>>]

FullBody ==
    [type_of_work |-> "Full Time", salary |-> "$500", hours_per_week |-> "40",
     date_updated |-> "Jan 5", job_overview |-> "Encode data", 
     skill_links |-> << <<"Excel">>, <<"Data", "Entry">> >>,
     section_elems |-> <<>>,
     text_span |-> <<"Excel", "\n", "Data", "Entry">>]

\* skill links of which one has two characters and one has no text
LinkBody ==
    [type_of_work |-> "Full Time", salary |-> "$500", hours_per_week |-> Null,
     date_updated |-> Null, job_overview |-> "Test the site",
     skill_links |-> << <<"QA">>, <<>>, <<"Excel">> >>,
     section_elems |-> <<>>,
     text_span |-> <<"QA", "\n", "Excel">>]

\* no skill links: the skills are in the elements after the heading
SectionBody ==
    [type_of_work |-> Null, salary |-> "$500", hours_per_week |-> Null,
     date_updated |-> Null, job_overview |-> "Encode data", skill_links |-> <<>>,
     section_elems |-> << <<"Excel", ",", "QA", ",", "Data", "Entry">>,
                          <<"Copyright", "2024">>, <<"Workers">> >>,
     text_span |-> <<"Excel", ",", "QA", ",", "Data", "Entry", "\n",
                     "Copyright", "2024", "\n", "Workers">>]

\* no skill links and nothing after the heading: the skills are found in the
\* flattened text only, one per line or separated by commas
TextBody ==
    [type_of_work |-> Null, salary |-> "$500", hours_per_week |-> Null,
     date_updated |-> Null, job_overview |-> "Encode data", skill_links |-> <<>>,
     section_elems |-> <<>>,
     text_span |-> <<"Excel", "\n", "Data", "Entry", ",", "QA", ",", "SEO",
                     "\n", "Copyright", "2024">>]

\* as TextBody, with commas only
CommaBody ==
    [type_of_work |-> Null, salary |-> Null, hours_per_week |-> "40",
     date_updated |-> Null, job_overview |-> Null, skill_links |-> <<>>,
     section_elems |-> <<>>,
     text_span |-> <<"Excel", ",", "Data", "Entry", ",", "QA">>]

\* [,\n\r]+ of the two splits
Separators == {",", "\n"}

\* the words that make 'copyright' in skill.lower() true
CopyrightWords == {"Copyright", "copyright", "COPYRIGHT"}

\* the one-word markers the text fallback cuts the span at
MarkerWords == {"Employers", "Workers"} \cup CopyrightWords

\* len() of words joined by single spaces
RECURSIVE SkillLen(_)
SkillLen(skill) ==
    IF skill = <<>> THEN 0
    ELSE IF Len(skill) = 1 THEN Len(skill[1])
    ELSE Len(Head(skill)) + 1 + SkillLen(Tail(skill))

HasCopyright(skill) == \E k \in 1..Len(skill) : skill[k] \in CopyrightWords

\* the filter of the two fallback extractions
KeepSkill(skill) == skill # <<>> /\ SkillLen(skill) > 2 /\ ~HasCopyright(skill)

\* re.split on the separators in `seps`: the items between them
RECURSIVE SplitOn(_, _)
SplitOn(text, seps) ==
    IF text = <<>> THEN << <<>> >>
    ELSE LET rest == SplitOn(Tail(text), seps)
         IN IF Head(text) \in seps
              THEN << <<>> >> \o rest
              ELSE << <<Head(text)>> \o Head(rest) >> \o Tail(rest)

\* re.sub(r'\s+', ' ', text): a line break becomes a space between two words
NormaliseSpace(text) ==
    LET IsNotBreak(t) == t # "\n" IN SelectSeq(text, IsNotBreak)

\* re.split(markers, text)[0]: the text before the first marker
RECURSIVE CutAtMarker(_)
CutAtMarker(text) ==
    IF text = <<>> \/ Head(text) \in MarkerWords THEN <<>>
    ELSE <<Head(text)>> \o CutAtMarker(Tail(text))

\* the loop over the siblings of the heading: it ends at the first element of
\* another section, and skips the elements of two characters or fewer
RECURSIVE SectionText(_)
SectionText(elems) ==
    IF elems = <<>> \/ HasCopyright(Head(elems)) THEN <<>>
    ELSE IF SkillLen(Head(elems)) > 2
      THEN Head(elems) \o SectionText(Tail(elems))
    ELSE SectionText(Tail(elems))

\* the first selector whose text is non-empty and longer than 5 characters
ExtractTitle(page) ==
    LET ok == {k \in 1..Len(page.titles) :
                  page.titles[k] # "" /\ Len(page.titles[k]) > 5}
    IN IF ok = {} THEN Null
       ELSE page.titles[CHOOSE k \in ok : \A j \in ok : k <= j]

\* skill links verbatim, else the filtered section, else the filtered text,
\* whose whitespace is normalised before it is split
ExtractSkills(page) ==
    LET from_section ==
            SelectSeq(SplitOn(SectionText(page.section_elems), Separators),
                      KeepSkill)
        from_text ==
            SelectSeq(SplitOn(CutAtMarker(NormaliseSpace(page.text_span)),
                              Separators),
                      KeepSkill)
    IN IF page.skill_links # <<>> THEN page.skill_links
       ELSE IF from_section # <<>> THEN from_section
       ELSE from_text

RequestFailed == [kind |-> "RequestException"]
ParsingFailed == [kind |-> "Exception"]

\* as scrape_job_details, had the fields been extracted before the title is
\* compared with the sentinel
scrape_job_details_NoShortCircuit(job_url, page, now) ==
    LET job_id == extract_job_id_from_url(job_url)
    IN IF job_id = None
         THEN ErrorResult("Could not extract job ID from URL", None, job_url)
       ELSE IF page.kind = "RequestException"
         THEN ErrorResult("Request failed", job_id, job_url)
       ELSE IF page.kind = "Exception"
         THEN ErrorResult("Parsing failed", job_id, job_url)
       ELSE [kind |-> "job", job_id |-> job_id, url |-> job_url,
             scraped_at |-> now, title |-> ExtractTitle(page),
             type_of_work |-> page.type_of_work, salary |-> page.salary,
             hours_per_week |-> page.hours_per_week,
             date_updated |-> page.date_updated,
             job_overview |-> page.job_overview,
             skill_requirements |-> ExtractSkills(page),
             is_active |-> ExtractTitle(page) # Sentinel,
             status_history |->
                 IF ExtractTitle(page) = Sentinel
                 THEN <<HistoryEntry("inactive", now, "Job marked as unavailable")>>
                 ELSE <<>>]

\* scrape_job_details: `page` is what the request produces, a page or a failure
scrape_job_details(job_url, page, now) ==
    LET job_id == extract_job_id_from_url(job_url)
        job_data == [kind |-> "job", job_id |-> job_id, url |-> job_url,
                     scraped_at |-> now, title |-> Null,
                     type_of_work |-> Null, salary |-> Null,
                     hours_per_week |-> Null, date_updated |-> Null,
                     job_overview |-> Null, skill_requirements |-> <<>>,
                     is_active |-> TRUE, status_history |-> <<>>]
    IN IF job_id = None
         THEN ErrorResult("Could not extract job ID from URL", None, job_url)
       ELSE IF page.kind = "RequestException"
         THEN ErrorResult("Request failed", job_id, job_url)
       ELSE IF page.kind = "Exception"
         THEN ErrorResult("Parsing failed", job_id, job_url)
       ELSE IF ExtractTitle(page) = Sentinel
         THEN [job_data EXCEPT
                 !.title = Sentinel,
                 !.is_active = FALSE,
                 !.status_history =
                     <<HistoryEntry("inactive", now, "Job marked as unavailable")>>]
       ELSE [job_data EXCEPT
                 !.title = ExtractTitle(page),
                 !.type_of_work = page.type_of_work,
                 !.salary = page.salary,
                 !.hours_per_week = page.hours_per_week,
                 !.date_updated = page.date_updated,
                 !.job_overview = page.job_overview,
                 !.skill_requirements = ExtractSkills(page)]

\* as session_get, had the request not waited for the job id
session_get_Always(job_url, page) == page

\* session.get(job_url): what answers the request of scrape_job_details, and
\* NoResult when it returns before it issues one
session_get(job_url, page) ==
    IF extract_job_id_from_url(job_url) = None THEN NoResult ELSE page

\* the detail pages served to the runs, and the ways a request can end
DetailPages ==
    { DetailPage(<<Sentinel, "", "", "">>, FullBody),
      DetailPage(<<"Data Entry Clerk", "", "", "">>, FullBody) }

FetchOutcomes == DetailPages \cup {RequestFailed, ParsingFailed}

\* as check_status_change, but "active" is appended whenever the job is active
check_status_change_ActiveAppends(new_job_data, existing_data, now) ==
    IF existing_data.kind # "record"
      THEN new_job_data
    ELSE
      LET was_active == existing_data.is_active
          is_now_active == new_job_data.is_active
          copied == existing_data.status_history
      IN [new_job_data EXCEPT !.status_history =
            IF was_active /\ ~is_now_active
              THEN Append(copied, HistoryEntry("inactive", now,
                                   "Job became unavailable during re-scrape"))
            ELSE IF is_now_active
              THEN Append(copied, HistoryEntry("active", now,
                                   "Job became available again during re-scrape"))
            ELSE copied]

\* as check_status_change, but the existing history is not copied
check_status_change_NoCopy(new_job_data, existing_data, now) ==
    IF existing_data.kind # "record"
      THEN new_job_data
    ELSE
      LET was_active == existing_data.is_active
          is_now_active == new_job_data.is_active
          copied == new_job_data.status_history
      IN [new_job_data EXCEPT !.status_history =
            IF was_active /\ ~is_now_active
              THEN Append(copied, HistoryEntry("inactive", now,
                                   "Job became unavailable during re-scrape"))
            ELSE IF ~was_active /\ is_now_active
              THEN Append(copied, HistoryEntry("active", now,
                                   "Job became available again during re-scrape"))
            ELSE copied]

\* as check_status_change, but "inactive" is appended at every unavailable
\* observation, changed or not
check_status_change_EveryScrape(new_job_data, existing_data, now) ==
    IF existing_data.kind # "record"
      THEN new_job_data
    ELSE
      LET was_active == existing_data.is_active
          is_now_active == new_job_data.is_active
          copied == existing_data.status_history
      IN [new_job_data EXCEPT !.status_history =
            IF ~is_now_active
              THEN Append(copied, HistoryEntry("inactive", now,
                                   "Job became unavailable during re-scrape"))
            ELSE IF ~was_active /\ is_now_active
              THEN Append(copied, HistoryEntry("active", now,
                                   "Job became available again during re-scrape"))
            ELSE copied]

\* as check_status_change, had the return of an inactive job to active not
\* been recorded
check_status_change_MissesReactivation(new_job_data, existing_data, now) ==
    IF existing_data.kind # "record"
      THEN new_job_data
    ELSE
      LET was_active == existing_data.is_active
          is_now_active == new_job_data.is_active
          copied == existing_data.status_history
      IN [new_job_data EXCEPT !.status_history =
            IF was_active /\ ~is_now_active
              THEN Append(copied, HistoryEntry("inactive", now,
                                   "Job became unavailable during re-scrape"))
            ELSE copied]

\* as check_status_change, had the new data been merged into the stored
\* record, a field without a new value keeping the stored one
check_status_change_KeepsStoredFields(new_job_data, existing_data, now) ==
    IF existing_data.kind # "record"
      THEN new_job_data
    ELSE
      LET was_active == existing_data.is_active
          is_now_active == new_job_data.is_active
          copied == existing_data.status_history
          Kept(new, stored) == IF new = Null THEN stored ELSE new
      IN [new_job_data EXCEPT
            !.title = Kept(@, existing_data.title),
            !.type_of_work = Kept(@, existing_data.type_of_work),
            !.salary = Kept(@, existing_data.salary),
            !.hours_per_week = Kept(@, existing_data.hours_per_week),
            !.date_updated = Kept(@, existing_data.date_updated),
            !.job_overview = Kept(@, existing_data.job_overview),
            !.skill_requirements =
                IF @ = <<>> THEN existing_data.skill_requirements ELSE @,
            !.status_history =
              IF was_active /\ ~is_now_active
                THEN Append(copied, HistoryEntry("inactive", now,
                                     "Job became unavailable during re-scrape"))
              ELSE IF ~was_active /\ is_now_active
                THEN Append(copied, HistoryEntry("active", now,
                                     "Job became available again during re-scrape"))
              ELSE copied]

\* as check_status_change, had a transition been stamped with the time of the
\* scrape instead of the time of the save
check_status_change_StampsScrapeTime(new_job_data, existing_data, now) ==
    IF existing_data.kind # "record"
      THEN new_job_data
    ELSE
      LET was_active == existing_data.is_active
          is_now_active == new_job_data.is_active
          copied == existing_data.status_history
      IN [new_job_data EXCEPT !.status_history =
            IF was_active /\ ~is_now_active
              THEN Append(copied, HistoryEntry("inactive", new_job_data.scraped_at,
                                   "Job became unavailable during re-scrape"))
            ELSE IF ~was_active /\ is_now_active
              THEN Append(copied, HistoryEntry("active", new_job_data.scraped_at,
                                   "Job became available again during re-scrape"))
            ELSE copied]

\* check_status_change, on the content of the existing file
check_status_change(new_job_data, existing_data, now) ==
    IF existing_data.kind # "record"
      THEN new_job_data            \* open/json.load raised: new data as-is
    ELSE
      LET was_active == existing_data.is_active
          is_now_active == new_job_data.is_active
          copied == existing_data.status_history
      IN [new_job_data EXCEPT !.status_history =
            IF was_active /\ ~is_now_active
              THEN Append(copied, HistoryEntry("inactive", now,
                                   "Job became unavailable during re-scrape"))
            ELSE IF ~was_active /\ is_now_active
              THEN Append(copied, HistoryEntry("active", now,
                                   "Job became available again during re-scrape"))
            ELSE copied]

\* as ReconciledRecord, had the first save of an id added a discovery entry
\* whatever the status of the record
ReconciledRecord_AlwaysDiscovers(job_data, file, now) ==
    LET merged ==
          IF file.kind # "absent"
            THEN check_status_change(job_data, file, now)
          ELSE [job_data EXCEPT !.status_history =
                  Append(@, HistoryEntry(IF job_data.is_active THEN "active"
                                         ELSE "inactive",
                                         now, "Job first discovered"))]
    IN [merged EXCEPT !.kind = "record"]

\* save_job_data up to the write: the record handed to json.dump
ReconciledRecord(job_data, file, now) ==
    LET merged ==
          IF file.kind # "absent"                       \* os.path.exists(filepath)
            THEN check_status_change(job_data, file, now)
          ELSE IF job_data.is_active
            THEN [job_data EXCEPT !.status_history =
                    Append(@, HistoryEntry("active", now, "Job first discovered"))]
          ELSE job_data
    IN [merged EXCEPT !.kind = "record"]

(***************************************************************************)
(* State after construction of the scraper, on an empty output directory.  *)
(***************************************************************************)
NoPages == [p \in {} |-> "queued"]
NoTasks == [u \in {} |-> "queued"]

\* JobPostingScraper.__init__ and the locals of run(), with the pool size
Fresh(workers) ==
    /\ pc = "start"
    /\ max_workers = workers
    /\ total_pages = 0
    /\ page_st = NoPages
    /\ page_res = NoPages
    /\ all_job_urls = {}
    /\ job_urls = {}
    /\ st = NoTasks
    /\ response = NoTasks
    /\ result = NoTasks
    /\ pending = NoTasks
    /\ completed_count = 0
    /\ total_count = 0
    /\ successful_jobs = 0
    /\ scraped_jobs = {}
    /\ failed_jobs = <<>>

\* the process has ended: nothing of its memory is left
Exited ==
    /\ pc' = "done"
    /\ max_workers' = 0
    /\ total_pages' = 0
    /\ page_st' = NoPages
    /\ page_res' = NoPages
    /\ all_job_urls' = {}
    /\ job_urls' = {}
    /\ st' = NoTasks
    /\ response' = NoTasks
    /\ result' = NoTasks
    /\ pending' = NoTasks
    /\ completed_count' = 0
    /\ total_count' = 0
    /\ successful_jobs' = 0
    /\ scraped_jobs' = {}
    /\ failed_jobs' = <<>>

\* the skill-count scraper is not running
NoTree ==
    /\ original_data = EmptyDict
    /\ leaf_nodes = <<>>
    /\ job_counts = EmptyDict
    /\ enhanced_tree = EmptyDict

\* threading.Lock(): both locks are free
NoLocks ==
    /\ progress_lock = "free"
    /\ results_lock = "free"

\* no page list is being planned
NoPlan ==
    /\ max_pages = 0
    /\ page_data = <<>>

\* no worker is pacing
NoPacing ==
    /\ thread_ident = 0
    /\ delay = 0
    /\ slept = 0

PageIdle ==
    /\ pg_links = <<>>
    /\ pg_i = 0
    /\ job_urls_by_id = EmptyDict
    /\ html = NoCount
    /\ NoPlan
    /\ clock = 0
    /\ NoLocks
    /\ NoTree
    /\ NoPacing

Init ==
    /\ disk = [id \in JobIds |-> Absent]
    /\ failed_log = Absent
    /\ run = 1
    /\ fetches = 0
    /\ \E w \in 1..MaxWorkers : Fresh(w)
    /\ PageIdle

(***************************************************************************)
(* Page discovery: get_job_urls_from_search_pages.                         *)
(***************************************************************************)
FallbackPages == 100

DecimalDigits == <<"0", "1", "2", "3", "4", "5", "6", "7", "8", "9">>

DigitValue(c) == (CHOOSE i \in 1..10 : DecimalDigits[i] = c) - 1

\* int(match.group(1))
RECURSIVE int(_)
int(digits) ==
    IF digits = <<>> THEN 0
    ELSE 10 * int(SubSeq(digits, 1, Len(digits) - 1)) + DigitValue(digits[Len(digits)])

\* the M of the count pattern, 0 when the pattern is not in the page
extract_total_jobs_from_page(text) ==
    IF text.kind = "count" THEN int(text.digits) ELSE 0

\* as ComputedPages, with a division that rounds down
ComputedPages_RoundsDown(total_jobs) ==
    IF total_jobs > 0 THEN total_jobs \div 30 ELSE FallbackPages

\* total_pages from the count found on page 1
ComputedPages(total_jobs) ==
    IF total_jobs > 0 THEN (total_jobs + 29) \div 30 ELSE FallbackPages

\* total_pages after the limit of max_pages (0: not given)
PageCount(total_jobs, limit) ==
    LET computed == ComputedPages(total_jobs)
    IN IF limit # 0 /\ limit < computed THEN limit ELSE computed

\* as PageData, had the loop started at page 1
PageData_FromPageOne(n) ==
    [k \in 1..n |-> [page_num |-> k, offset |-> (k - 1) * 30]]

\* page_data: for page_num in range(2, total_pages + 1), the page and the
\* offset (page_num - 1) * 30 its URL ends with
PageData(n) ==
    [k \in 1..(n - 1) |-> [page_num |-> k + 1, offset |-> ((k + 1) - 1) * 30]]

\* the pages of the futures submitted to the page pool
PageNums(n) == {PageData(n)[k].page_num : k \in 1..Len(PageData(n))}

\* the first page is fetched and parsed by the main thread
FirstPage ==
    /\ pc = "start"
    /\ \E links \in SearchPages, text \in FirstPageTexts, limit \in 0..MaxPages :
          LET n == PageCount(extract_total_jobs_from_page(text), limit)
          IN /\ n <= MaxPages
             /\ total_pages' = n
             /\ all_job_urls' = extract_job_urls_from_page(links)
             /\ page_st' = [p \in PageNums(n) |-> "queued"]
             /\ page_res' = [p \in PageNums(n) |-> {}]
    /\ pc' = "pages"
    /\ UNCHANGED << disk, failed_log, run, fetches, max_workers, job_urls, st, response, result, pending,
                    completed_count, total_count, successful_jobs, scraped_jobs,
                    failed_jobs, pageVars >>

\* the first request raised: discovery returns [], run() prints
\* "No job URLs found. Exiting." and the process ends
FirstPageFails ==
    /\ pc = "start"
    /\ Exited
    /\ UNCHANGED << disk, failed_log, run, fetches, pageVars >>

PagesRunning == {p \in DOMAIN page_st : page_st[p] = "running"}

Min(a, b) == IF a < b THEN a ELSE b

\* ThreadPoolExecutor(max_workers=min(self.max_workers, len(page_data)))
PagePoolSize == Min(max_workers, Cardinality(DOMAIN page_st))

\* a pool thread takes the page task
PageStart(p) ==
    /\ pc = "pages"
    /\ page_st[p] = "queued"
    /\ Cardinality(PagesRunning) < PagePoolSize
    /\ page_st' = [page_st EXCEPT ![p] = "running"]
    /\ UNCHANGED << disk, failed_log, run, fetches, pc, max_workers, total_pages, page_res,
                    all_job_urls, job_urls, st, response, result, pending, completed_count,
                    total_count, successful_jobs, scraped_jobs, failed_jobs, pageVars >>

\* _fetch_page_worker, request answered
PageFetched(p) ==
    /\ pc = "pages"
    /\ page_st[p] = "running"
    /\ \E links \in SearchPages :
          page_res' = [page_res EXCEPT ![p] = extract_job_urls_from_page(links)]
    /\ page_st' = [page_st EXCEPT ![p] = "returned"]
    /\ UNCHANGED << disk, failed_log, run, fetches, pc, max_workers, total_pages,
                    all_job_urls, job_urls, st, response, result, pending, completed_count,
                    total_count, successful_jobs, scraped_jobs, failed_jobs, pageVars >>

\* _fetch_page_worker, request raised: "Error scraping page", and the worker
\* returns (page_num, []) as for a page without links
PageFailed(p) ==
    /\ pc = "pages"
    /\ page_st[p] = "running"
    /\ page_res' = [page_res EXCEPT ![p] = {}]
    /\ page_st' = [page_st EXCEPT ![p] = "errored"]
    /\ UNCHANGED << disk, failed_log, run, fetches, pc, max_workers, total_pages,
                    all_job_urls, job_urls, st, response, result, pending, completed_count,
                    total_count, successful_jobs, scraped_jobs, failed_jobs, pageVars >>

\* "if job_url not in all_job_urls: all_job_urls.add(job_url)", for one page
AddNewUrls(seen, found) == seen \cup found

\* body of the as_completed loop over the page futures
PageCollected(p) ==
    /\ pc = "pages"
    /\ page_st[p] \in {"returned", "errored"}
    /\ all_job_urls' = AddNewUrls(all_job_urls, page_res[p])
    /\ page_st' = [page_st EXCEPT ![p] = "processed"]
    /\ UNCHANGED << disk, failed_log, run, fetches, pc, max_workers, total_pages, page_res,
                    job_urls, st, response, result, pending, completed_count,
                    total_count, successful_jobs, scraped_jobs, failed_jobs, pageVars >>

\* as DiscoveryReturns, had the discovery returned without draining its pool
DiscoveryReturns_NoWait == pc = "pages"

\* the as_completed loop has consumed every page future and the pool is shut
\* down: get_job_urls_from_search_pages returns list(all_job_urls)
DiscoveryReturns ==
    /\ pc = "pages"
    /\ \A p \in DOMAIN page_st : page_st[p] = "processed"

\* as NoJobUrls, had run() gone on to its end and written the failure log
\* without looking at failed_jobs
NoJobUrls_WritesLog ==
    /\ DiscoveryReturns
    /\ all_job_urls = {}
    /\ failed_log' = [kind |-> "file", entries |-> failed_jobs]
    /\ Exited
    /\ UNCHANGED << disk, run, fetches, pageVars >>

\* run(): discovery returned nothing, "No job URLs found. Exiting."
NoJobUrls ==
    /\ DiscoveryReturns
    /\ all_job_urls = {}
    /\ Exited
    /\ UNCHANGED << disk, failed_log, run, fetches, pageVars >>

\* run(): the job list (any order of list(set), cut by limit_jobs; 0: not given),
\* total_count, and the submission of every task; the locals of the discovery
\* are gone
SubmitJobs ==
    /\ DiscoveryReturns
    /\ all_job_urls # {}
    /\ \E limit_jobs \in 0..MaxJobs, chosen \in SUBSET all_job_urls :
          /\ Cardinality(chosen) =
                IF limit_jobs # 0 THEN Min(limit_jobs, Cardinality(all_job_urls))
                ELSE Cardinality(all_job_urls)
          /\ Cardinality(chosen) <= MaxJobs
          /\ fetches + Cardinality(chosen) <= MaxFetches
          /\ fetches' = fetches + Cardinality(chosen)
          /\ job_urls' = chosen
          /\ total_count' = Cardinality(chosen)
          /\ st' = [u \in chosen |-> "queued"]
          /\ response' = [u \in chosen |-> NoResult]
          /\ result' = [u \in chosen |-> NoResult]
          /\ pending' = [u \in chosen |-> NoResult]
    /\ pc' = "jobs"
    /\ total_pages' = 0
    /\ page_st' = NoPages
    /\ page_res' = NoPages
    /\ all_job_urls' = {}
    /\ UNCHANGED << disk, failed_log, run, max_workers,
                    completed_count, successful_jobs, scraped_jobs,
                    failed_jobs, pageVars >>

(***************************************************************************)
(* The job-detail phase: workers (_scrape_job_worker) and the main thread  *)
(* (the as_completed loop of run()).                                       *)
(***************************************************************************)
IdOf(u) == extract_job_id_from_url(u)

JobsRunning == {u \in job_urls : st[u] = "running"}

\* as JobPoolSize, had the pool been given one thread per task
JobPoolSize_PerTask == Cardinality(job_urls)

\* ThreadPoolExecutor(max_workers=self.max_workers)
JobPoolSize == max_workers

\* a pool thread takes the task; the worker sleeps its pacing delay
JobStart(u) ==
    /\ pc = "jobs"
    /\ st[u] = "queued"
    /\ Cardinality(JobsRunning) < JobPoolSize
    /\ st' = [st EXCEPT ![u] = "running"]
    /\ UNCHANGED << disk, failed_log, run, fetches, pc, max_workers, total_pages, page_st,
                    page_res, all_job_urls, job_urls, response, result, pending, completed_count,
                    total_count, successful_jobs, scraped_jobs, failed_jobs, pageVars >>

\* the request returns or fails, scrape_job_details builds its value, the
\* worker counts itself under progress_lock and returns
JobReturnsFrom(u, outcomes) ==
    /\ pc = "jobs"
    /\ st[u] = "running"
    /\ \E page \in outcomes :
          /\ response' = [response EXCEPT ![u] = session_get(u, page)]
          /\ result' = [result EXCEPT ![u] = scrape_job_details(u, page, run)]
    /\ completed_count' = completed_count + 1
    /\ st' = [st EXCEPT ![u] = "returned"]
    /\ UNCHANGED << disk, failed_log, run, fetches, pc, max_workers, total_pages, page_st,
                    page_res, all_job_urls, job_urls, pending,
                    total_count, successful_jobs, scraped_jobs, failed_jobs, pageVars >>

JobReturns(u) == JobReturnsFrom(u, FetchOutcomes)

\* the worker function itself raises (before it has counted itself)
JobRaises(u) ==
    /\ pc = "jobs"
    /\ st[u] = "running"
    /\ st' = [st EXCEPT ![u] = "raised"]
    /\ UNCHANGED << disk, failed_log, run, fetches, pc, max_workers, total_pages, page_st,
                    page_res, all_job_urls, job_urls, response, result, pending, completed_count,
                    total_count, successful_jobs, scraped_jobs, failed_jobs, pageVars >>

\* as MainIdle, had save_job_data been called from the worker threads
MainIdle_InWorker == TRUE

\* the loop body runs on the main thread alone: it takes the next completed
\* future only when it is not inside save_job_data for another one
MainIdle == \A v \in job_urls : st[v] # "saving"

\* as AfterFailure, had a failed task been put back in the pool's queue
AfterFailure_Retried == "queued"

\* state of a task whose failure run() has recorded: the loop goes on to the
\* next completed future and nothing submits the URL again
AfterFailure == "failed"

\* as AfterWorkerError, had the worker's exception left the loop
AfterWorkerError_Propagates == "aborted"

\* position of run() after the except branch of the loop body
AfterWorkerError == "jobs"

\* future.result() raised: "Worker error"
CollectRaised(u) ==
    /\ pc = "jobs"
    /\ MainIdle
    /\ st[u] = "raised"
    /\ failed_jobs' = Append(failed_jobs, FailureRecord(u, "Worker error", run))
    /\ st' = [st EXCEPT ![u] = AfterFailure]
    /\ pc' = AfterWorkerError
    /\ response' = [response EXCEPT ![u] = NoResult]
    /\ result' = [result EXCEPT ![u] = NoResult]
    /\ pending' = [pending EXCEPT ![u] = NoResult]
    /\ UNCHANGED << disk, failed_log, run, fetches, max_workers, total_pages, page_st,
                    page_res, all_job_urls, job_urls, completed_count,
                    total_count, successful_jobs, scraped_jobs, pageVars >>

\* as LogFailure, but the failure is not recorded
LogFailure_Dropped(log, u, job_data, now) == log

\* failed_jobs after the else branch for a result that is not saved
LogFailure(log, u, job_data, now) ==
    Append(log, FailureRecord(u,
                  IF job_data.kind = "error" THEN job_data.error ELSE "Unknown error",
                  now))

\* "error" in job_data, or save_job_data returns False for want of a job_id
CollectError(u) ==
    /\ pc = "jobs"
    /\ MainIdle
    /\ st[u] = "returned"
    /\ (result[u].kind = "error" \/ result[u].job_id = None)
    /\ failed_jobs' = LogFailure(failed_jobs, u, result[u], run)
    /\ st' = [st EXCEPT ![u] = AfterFailure]
    /\ response' = [response EXCEPT ![u] = NoResult]
    /\ result' = [result EXCEPT ![u] = NoResult]
    /\ pending' = [pending EXCEPT ![u] = NoResult]
    /\ UNCHANGED << disk, failed_log, run, fetches, pc, max_workers, total_pages, page_st,
                    page_res, all_job_urls, job_urls, completed_count,
                    total_count, successful_jobs, scraped_jobs, pageVars >>

\* save_job_data: os.path.exists, check_status_change / first discovery
SaveReads(u) ==
    /\ pc = "jobs"
    /\ MainIdle
    /\ st[u] = "returned"
    /\ result[u].kind = "job"
    /\ result[u].job_id # None
    /\ pending' = [pending EXCEPT
                      ![u] = ReconciledRecord(result[u], disk[result[u].job_id], run)]
    /\ st' = [st EXCEPT ![u] = "saving"]
    /\ UNCHANGED << disk, failed_log, run, fetches, pc, max_workers, total_pages, page_st,
                    page_res, all_job_urls, job_urls, response, result, completed_count,
                    total_count, successful_jobs, scraped_jobs, failed_jobs, pageVars >>

\* save_job_data: the file is written; run() counts the job
SaveWrites(u) ==
    /\ pc = "jobs"
    /\ st[u] = "saving"
    /\ disk' = [disk EXCEPT ![pending[u].job_id] = pending[u]]
    /\ successful_jobs' = successful_jobs + 1
    /\ scraped_jobs' = scraped_jobs \cup {pending[u].job_id}
    /\ st' = [st EXCEPT ![u] = "saved"]
    /\ response' = [response EXCEPT ![u] = NoResult]
    /\ result' = [result EXCEPT ![u] = NoResult]
    /\ pending' = [pending EXCEPT ![u] = NoResult]
    /\ UNCHANGED << failed_log, run, fetches, pc, max_workers, total_pages, page_st,
                    page_res, all_job_urls, job_urls, completed_count,
                    total_count, failed_jobs, pageVars >>

\* save_job_data: open() raises, the file is as it was; run() logs the failure
SaveOpenFails(u) ==
    /\ pc = "jobs"
    /\ st[u] = "saving"
    /\ failed_jobs' = LogFailure(failed_jobs, u, result[u], run)
    /\ st' = [st EXCEPT ![u] = AfterFailure]
    /\ response' = [response EXCEPT ![u] = NoResult]
    /\ result' = [result EXCEPT ![u] = NoResult]
    /\ pending' = [pending EXCEPT ![u] = NoResult]
    /\ UNCHANGED << disk, failed_log, run, fetches, pc, max_workers, total_pages, page_st,
                    page_res, all_job_urls, job_urls, completed_count,
                    total_count, successful_jobs, scraped_jobs, pageVars >>

\* save_job_data: open(filepath, 'w') truncated the file and json.dump raised
\* part-way: what is left does not parse; run() logs the failure
SaveDumpFails(u) ==
    /\ pc = "jobs"
    /\ st[u] = "saving"
    /\ disk' = [disk EXCEPT ![pending[u].job_id] = Corrupt]
    /\ failed_jobs' = LogFailure(failed_jobs, u, result[u], run)
    /\ st' = [st EXCEPT ![u] = AfterFailure]
    /\ response' = [response EXCEPT ![u] = NoResult]
    /\ result' = [result EXCEPT ![u] = NoResult]
    /\ pending' = [pending EXCEPT ![u] = NoResult]
    /\ UNCHANGED << failed_log, run, fetches, pc, max_workers, total_pages, page_st,
                    page_res, all_job_urls, job_urls, completed_count,
                    total_count, successful_jobs, scraped_jobs, pageVars >>

\* end of run(): the pool is drained, the summary is printed, and the failure
\* log is written when (and only when) there were failures
WriteFailedLog(log, failures) ==
    IF failures # <<>> THEN [kind |-> "file", entries |-> failures] ELSE log

FinishRun ==
    /\ pc = "jobs"
    /\ \A u \in job_urls : st[u] \in {"saved", "failed"}
    /\ failed_log' = WriteFailedLog(failed_log, failed_jobs)
    /\ Exited
    /\ UNCHANGED << disk, run, fetches, pageVars >>

\* the program is started again on the same output directory
NewRun ==
    /\ pc = "done"
    /\ run < MaxRuns
    /\ fetches < MaxFetches
    /\ run' = run + 1
    /\ pc' = "start"
    /\ \E w \in 1..MaxWorkers : max_workers' = w
    /\ UNCHANGED << disk, failed_log, fetches, total_pages, page_st, page_res, all_job_urls,
                    job_urls, st, response, result, pending, completed_count, total_count,
                    successful_jobs, scraped_jobs, failed_jobs, pageVars >>

Next ==
    \/ FirstPage
    \/ FirstPageFails
    \/ \E p \in DOMAIN page_st : PageStart(p)
    \/ \E p \in DOMAIN page_st : PageFetched(p)
    \/ \E p \in DOMAIN page_st : PageFailed(p)
    \/ \E p \in DOMAIN page_st : PageCollected(p)
    \/ NoJobUrls
    \/ SubmitJobs
    \/ \E u \in job_urls : JobStart(u)
    \/ \E u \in job_urls : JobReturns(u)
    \/ \E u \in job_urls : JobRaises(u)
    \/ \E u \in job_urls : CollectRaised(u)
    \/ \E u \in job_urls : CollectError(u)
    \/ \E u \in job_urls : SaveReads(u)
    \/ \E u \in job_urls : SaveWrites(u)
    \/ \E u \in job_urls : SaveOpenFails(u)
    \/ \E u \in job_urls : SaveDumpFails(u)
    \/ FinishRun
    \/ NewRun

Spec == Init /\ [][Next]_vars

(***************************************************************************)
(* extract_job_urls_from_page on its own: any result page of up to         *)
(* MaxLinks anchors, consumed one anchor per step.                         *)
(***************************************************************************)
InitPage ==
    /\ disk = [id \in JobIds |-> Absent]
    /\ failed_log = Absent
    /\ run = 1
    /\ fetches = 0
    /\ Fresh(MaxWorkers)
    /\ pg_links \in SeqsUpTo(PageHrefs, MaxLinks)
    /\ pg_i = 0
    /\ job_urls_by_id = EmptyDict
    /\ html = NoCount
    /\ NoPlan
    /\ clock = 0
    /\ NoLocks
    /\ NoTree
    /\ NoPacing

\* one iteration of "for link in job_links"
PageLink ==
    /\ pg_i < Len(pg_links)
    /\ job_urls_by_id' = PageLinkStep(job_urls_by_id, pg_links[pg_i + 1])
    /\ pg_i' = pg_i + 1
    /\ UNCHANGED << pg_links, html, clock, progress_lock, results_lock,
                    treeVars, max_pages, page_data, thread_ident, delay, slept,
                    runVars >>

NextPage == PageLink

SpecPage == InitPage /\ [][NextPage]_vars

(***************************************************************************)
(* The page count on its own: any total of up to MaxCountDigits digits     *)
(* shown on page 1, or no count at all.                                    *)
(***************************************************************************)
CountTexts ==
    {NoCount} \cup
    {CountText(d) : d \in SeqsUpTo({DecimalDigits[i] : i \in 1..10}, MaxCountDigits) \ {<<>>}}

\* --max-pages: not given, within the pages of the site, and beyond them
PageLimits == (0..MaxPages) \cup {FallbackPages \div 2, FallbackPages + 1}

InitCount ==
    /\ disk = [id \in JobIds |-> Absent]
    /\ failed_log = Absent
    /\ run = 1
    /\ fetches = 0
    /\ Fresh(MaxWorkers)
    /\ pg_links = <<>>
    /\ pg_i = 0
    /\ job_urls_by_id = EmptyDict
    /\ html \in CountTexts
    /\ max_pages \in PageLimits
    /\ page_data = <<>>
    /\ clock = 0
    /\ NoLocks
    /\ NoTree
    /\ NoPacing

\* the first page is fetched: total_jobs and total_pages, before the limit
CountPages ==
    /\ pc = "start"
    /\ total_pages' = ComputedPages(extract_total_jobs_from_page(html))
    /\ pc' = "counted"
    /\ UNCHANGED << disk, failed_log, run, fetches, max_workers, page_st, page_res,
                    all_job_urls, job_urls, st, response, result, pending,
                    completed_count, total_count, successful_jobs, scraped_jobs,
                    failed_jobs, pageVars >>

\* the limit is applied and the list of the remaining pages is built
PlanPages ==
    /\ pc = "counted"
    /\ total_pages' = PageCount(extract_total_jobs_from_page(html), max_pages)
    /\ page_data' = PageData(total_pages')
    /\ pc' = "planned"
    /\ UNCHANGED << disk, failed_log, run, fetches, max_workers, page_st, page_res,
                    all_job_urls, job_urls, st, response, result, pending,
                    completed_count, total_count, successful_jobs, scraped_jobs,
                    failed_jobs, pg_links, pg_i, job_urls_by_id, html, clock, progress_lock, results_lock,
                    treeVars, max_pages,
                    thread_ident, delay, slept >>

NextCount == CountPages \/ PlanPages

SpecCount == InitCount /\ [][NextCount]_vars

(***************************************************************************)
(* The pacing sleep on its own: a worker of either pool, of any thread     *)
(* identity, with a delay of 0 to 1.5 seconds.                             *)
(***************************************************************************)
\* 20 * (0.5 + 0.5 * ident % 10 / 10): Python reads 0.5 * ident % 10 / 10 as
\* ((0.5 * ident) % 10) / 10, and (0.5 * ident) % 10 is (ident % 20) / 2
JitterFactor20(ident) == 10 + (ident % 20)

\* the argument of time.sleep, in 1/200 s for a delay in tenths of a second
SleepLength(d, ident) == d * JitterFactor20(ident)

DelayChoices == {0, 5, 10, 15}

InitPacing ==
    /\ disk = [id \in JobIds |-> Absent]
    /\ failed_log = Absent
    /\ run = 1
    /\ fetches = 0
    /\ Fresh(MaxWorkers)
    /\ pg_links = <<>>
    /\ pg_i = 0
    /\ job_urls_by_id = EmptyDict
    /\ html = NoCount
    /\ NoPlan
    /\ clock = 0
    /\ NoLocks
    /\ NoTree
    /\ thread_ident \in 0..MaxIdent
    /\ delay \in DelayChoices
    /\ slept = 0

\* _fetch_page_worker up to its request
PageWorkerSleeps ==
    /\ pc = "start"
    /\ slept' = SleepLength(delay, thread_ident)
    /\ pc' = "page_slept"
    /\ UNCHANGED << disk, failed_log, run, fetches, max_workers, total_pages, page_st,
                    page_res, all_job_urls, job_urls, st, response, result, pending,
                    completed_count, total_count, successful_jobs, scraped_jobs,
                    failed_jobs, pg_links, pg_i, job_urls_by_id, html, clock, progress_lock, results_lock,
                    treeVars, max_pages,
                    page_data, thread_ident,
                    delay >>

\* _scrape_job_worker up to scrape_job_details
JobWorkerSleeps ==
    /\ pc = "start"
    /\ slept' = SleepLength(delay, thread_ident)
    /\ pc' = "job_slept"
    /\ UNCHANGED << disk, failed_log, run, fetches, max_workers, total_pages, page_st,
                    page_res, all_job_urls, job_urls, st, response, result, pending,
                    completed_count, total_count, successful_jobs, scraped_jobs,
                    failed_jobs, pg_links, pg_i, job_urls_by_id, html, clock, progress_lock, results_lock,
                    treeVars, max_pages,
                    page_data, thread_ident,
                    delay >>

NextPacing == PageWorkerSleeps \/ JobWorkerSleeps

SpecPacing == InitPacing /\ [][NextPacing]_vars

(***************************************************************************)
(* One job-detail task on its own: _scrape_job_worker and the loop body of *)
(* run() for a batch of one URL, for any URL and any detail page.          *)
(***************************************************************************)
DetailUrls == {urljoin(h) : h \in PageHrefs}

DetailTitles ==
    { <<Sentinel, "", "", "">>, <<"", "", "", Sentinel>>,
      <<"Jobs", "", "", Sentinel>>, <<"Data Entry Clerk", "", "", Sentinel>>,
      <<"", "Data Entry Clerk", "", "">>, NoTitles }

DetailBodies ==
    {EmptyBody, FullBody, LinkBody, SectionBody, TextBody, CommaBody}

AllDetailPages ==
    {DetailPage(t, b) : t \in DetailTitles, b \in DetailBodies}

AllFetchOutcomes == AllDetailPages \cup {RequestFailed, ParsingFailed}

\* run() has submitted the task of its only URL
InitDetail ==
    /\ disk = [id \in JobIds |-> Absent]
    /\ failed_log = Absent
    /\ run = 1
    /\ fetches = 1
    /\ pc = "jobs"
    /\ max_workers \in 1..MaxWorkers
    /\ total_pages = 0
    /\ page_st = NoPages
    /\ page_res = NoPages
    /\ all_job_urls = {}
    /\ \E u \in DetailUrls :
          /\ job_urls = {u}
          /\ st = [v \in {u} |-> "queued"]
          /\ response = [v \in {u} |-> NoResult]
          /\ result = [v \in {u} |-> NoResult]
          /\ pending = [v \in {u} |-> NoResult]
    /\ completed_count = 0
    /\ total_count = 1
    /\ successful_jobs = 0
    /\ scraped_jobs = {}
    /\ failed_jobs = <<>>
    /\ PageIdle

DetailReturns(u) == JobReturnsFrom(u, AllFetchOutcomes)

NextDetail ==
    \/ \E u \in job_urls : JobStart(u)
    \/ \E u \in job_urls : DetailReturns(u)
    \/ \E u \in job_urls : JobRaises(u)
    \/ \E u \in job_urls : CollectRaised(u)
    \/ \E u \in job_urls : CollectError(u)
    \/ \E u \in job_urls : SaveReads(u)
    \/ \E u \in job_urls : SaveWrites(u)
    \/ \E u \in job_urls : SaveOpenFails(u)
    \/ \E u \in job_urls : SaveDumpFails(u)
    \/ FinishRun

SpecDetail == InitDetail /\ [][NextDetail]_vars

(***************************************************************************)
(* The timestamps on their own: the two job tasks of one id (the URLs the  *)
(* discovery can return for it), over several runs, with a clock that is   *)
(* read by the worker when it scrapes and by the main thread when it       *)
(* saves, and that never goes backwards.                                   *)
(***************************************************************************)
ClockUrls == {urljoin(ShortUrl1), urljoin(LongUrl1)}

\* datetime.now(): the last reading or a later one
Readings == {t \in {clock, clock + 1} : t <= MaxClock}

InitClock ==
    /\ disk = [id \in JobIds |-> Absent]
    /\ failed_log = Absent
    /\ run = 1
    /\ fetches = 0
    /\ pc = "jobs"
    /\ max_workers = MaxWorkers
    /\ total_pages = 0
    /\ page_st = NoPages
    /\ page_res = NoPages
    /\ all_job_urls = {}
    /\ job_urls = ClockUrls
    /\ st = [u \in ClockUrls |-> "queued"]
    /\ response = [u \in ClockUrls |-> NoResult]
    /\ result = [u \in ClockUrls |-> NoResult]
    /\ pending = [u \in ClockUrls |-> NoResult]
    /\ completed_count = 0
    /\ total_count = 0
    /\ successful_jobs = 0
    /\ scraped_jobs = {}
    /\ failed_jobs = <<>>
    /\ PageIdle

\* what the timed actions leave alone
timedFrame ==
    << failed_log, fetches, pc, max_workers, total_pages, page_st, page_res,
       all_job_urls, job_urls, response, pending, completed_count, total_count,
       successful_jobs, scraped_jobs, failed_jobs, pg_links, pg_i,
       job_urls_by_id, html, progress_lock, results_lock, treeVars, max_pages,
       page_data,
       thread_ident, delay, slept >>

\* a worker scrapes its URL: scraped_at and the entry of an unavailable job
\* carry the time of the scrape
TimedScrape(u) ==
    /\ st[u] = "queued"
    /\ \E page \in FetchOutcomes, t \in Readings :
          /\ clock' = t
          /\ result' = [result EXCEPT ![u] = scrape_job_details(u, page, t)]
          /\ st' = [st EXCEPT ![u] = IF result'[u].kind = "error"
                                      THEN "failed" ELSE "returned"]
    /\ UNCHANGED << disk, run, timedFrame >>

\* the main thread saves a returned record: the entries save_job_data and
\* check_status_change add carry the time of the save
TimedSave(u) ==
    /\ st[u] = "returned"
    /\ \E t \in Readings :
          /\ clock' = t
          /\ disk' = [disk EXCEPT
                         ![IdOf(u)] = ReconciledRecord(result[u], disk[IdOf(u)], t)]
    /\ st' = [st EXCEPT ![u] = "saved"]
    /\ result' = [result EXCEPT ![u] = NoResult]
    /\ UNCHANGED << run, timedFrame >>

\* json.dump raised after the file was truncated
TimedSaveFails(u) ==
    /\ st[u] = "returned"
    /\ disk' = [disk EXCEPT ![IdOf(u)] = Corrupt]
    /\ st' = [st EXCEPT ![u] = "failed"]
    /\ result' = [result EXCEPT ![u] = NoResult]
    /\ UNCHANGED << run, clock, timedFrame >>

\* the program is started again on the same directory
TimedNewRun ==
    /\ \A u \in job_urls : st[u] \in {"saved", "failed"}
    /\ run <= MaxRuns
    /\ run' = run + 1
    /\ st' = [u \in job_urls |-> "queued"]
    /\ UNCHANGED << disk, result, clock, timedFrame >>

NextClock ==
    \/ \E u \in job_urls : TimedScrape(u)
    \/ \E u \in job_urls : TimedSave(u)
    \/ \E u \in job_urls : TimedSaveFails(u)
    \/ TimedNewRun

SpecClock == InitClock /\ [][NextClock]_vars

(***************************************************************************)
(* Termination on its own: one run with its page tasks and its job tasks,  *)
(* each worker step by step (the pacing sleep, the request, the section    *)
(* under progress_lock) and the main thread with results_lock.  A request  *)
(* returns or times out; a lock is taken when it is free.                  *)
(***************************************************************************)
LivePages == 2..(MaxPages + 1)

LiveUrls == ClockUrls

\* as Released, had the lock not been released at the end of the section
Released_StillHeld == "held"

\* the end of a "with lock:" section
Released == "free"

InitLive ==
    /\ disk = [id \in JobIds |-> Absent]
    /\ failed_log = Absent
    /\ run = 1
    /\ fetches = 0
    /\ pc = "pages"
    /\ max_workers \in 1..MaxWorkers
    /\ total_pages = MaxPages + 1
    /\ page_st = [p \in LivePages |-> "queued"]
    /\ page_res = [p \in LivePages |-> {}]
    /\ all_job_urls = {}
    /\ job_urls = {}
    /\ st = NoTasks
    /\ response = NoTasks
    /\ result = NoTasks
    /\ pending = NoTasks
    /\ completed_count = 0
    /\ total_count = 0
    /\ successful_jobs = 0
    /\ scraped_jobs = {}
    /\ failed_jobs = <<>>
    /\ PageIdle

\* what the steps of this unit leave alone
liveFrame ==
    << run, fetches, max_workers, total_pages, page_res, all_job_urls, response,
       total_count, successful_jobs, scraped_jobs, pg_links, pg_i,
       job_urls_by_id, html, clock, treeVars, max_pages, page_data, thread_ident,
       delay,
       slept >>

\* the states of a task that occupies a pool thread
InWorker == {"sleeping", "requesting", "waiting", "holding"}

\* a pool thread takes the page task
LivePageStart(p) ==
    /\ pc = "pages"
    /\ page_st[p] = "queued"
    /\ Cardinality({q \in DOMAIN page_st : page_st[q] \in InWorker})
          < Min(max_workers, Cardinality(DOMAIN page_st))
    /\ page_st' = [page_st EXCEPT ![p] = "sleeping"]
    /\ UNCHANGED << disk, failed_log, pc, job_urls, st, result, pending,
                    completed_count, failed_jobs, progress_lock, results_lock,
                    liveFrame >>

\* time.sleep returns, or raises for a negative length
LivePageSlept(p) ==
    /\ page_st[p] = "sleeping"
    /\ \E next \in {"requesting", "raised"} :
          page_st' = [page_st EXCEPT ![p] = next]
    /\ UNCHANGED << disk, failed_log, pc, job_urls, st, result, pending,
                    completed_count, failed_jobs, progress_lock, results_lock,
                    liveFrame >>

\* session.get returns, raises or times out: the worker goes on to its print
LivePageResponds(p) ==
    /\ page_st[p] = "requesting"
    /\ page_st' = [page_st EXCEPT ![p] = "waiting"]
    /\ UNCHANGED << disk, failed_log, pc, job_urls, st, result, pending,
                    completed_count, failed_jobs, progress_lock, results_lock,
                    liveFrame >>

\* with self.progress_lock: entered
LivePageLocks(p) ==
    /\ page_st[p] = "waiting"
    /\ progress_lock = "free"
    /\ progress_lock' = "held"
    /\ page_st' = [page_st EXCEPT ![p] = "holding"]
    /\ UNCHANGED << disk, failed_log, pc, job_urls, st, result, pending,
                    completed_count, failed_jobs, results_lock, liveFrame >>

\* the print is done, the lock is released and the worker returns
LivePageUnlocks(p) ==
    /\ page_st[p] = "holding"
    /\ progress_lock' = Released
    /\ page_st' = [page_st EXCEPT ![p] = "returned"]
    /\ UNCHANGED << disk, failed_log, pc, job_urls, st, result, pending,
                    completed_count, failed_jobs, results_lock, liveFrame >>

\* the as_completed loop of the discovery takes a finished future
LivePageCollected(p) ==
    /\ pc = "pages"
    /\ page_st[p] \in {"returned", "raised"}
    /\ page_st' = [page_st EXCEPT ![p] = "processed"]
    /\ UNCHANGED << disk, failed_log, pc, job_urls, st, result, pending,
                    completed_count, failed_jobs, progress_lock, results_lock,
                    liveFrame >>

\* discovery returns: run() ends for want of URLs, or submits the job tasks
LiveDiscoveryReturns ==
    /\ pc = "pages"
    /\ \A p \in DOMAIN page_st : page_st[p] = "processed"
    /\ \/ /\ pc' = "done"
          /\ UNCHANGED << job_urls, st, result, pending >>
       \/ /\ pc' = "jobs"
          /\ job_urls' = LiveUrls
          /\ st' = [u \in LiveUrls |-> "queued"]
          /\ result' = [u \in LiveUrls |-> NoResult]
          /\ pending' = [u \in LiveUrls |-> NoResult]
    /\ UNCHANGED << disk, failed_log, page_st, completed_count, failed_jobs,
                    progress_lock, results_lock, liveFrame >>

\* a pool thread takes the job task
LiveJobStart(u) ==
    /\ pc = "jobs"
    /\ st[u] = "queued"
    /\ Cardinality({v \in job_urls : st[v] \in InWorker}) < max_workers
    /\ st' = [st EXCEPT ![u] = "sleeping"]
    /\ UNCHANGED << disk, failed_log, pc, page_st, job_urls, result, pending,
                    completed_count, failed_jobs, progress_lock, results_lock,
                    liveFrame >>

\* time.sleep returns, or raises for a negative length
LiveJobSlept(u) ==
    /\ st[u] = "sleeping"
    /\ \E next \in {"requesting", "raised"} : st' = [st EXCEPT ![u] = next]
    /\ UNCHANGED << disk, failed_log, pc, page_st, job_urls, result, pending,
                    completed_count, failed_jobs, progress_lock, results_lock,
                    liveFrame >>

\* scrape_job_details returns, with a record or with an error
LiveJobResponds(u) ==
    /\ st[u] = "requesting"
    /\ \E page \in FetchOutcomes :
          result' = [result EXCEPT ![u] = scrape_job_details(u, page, run)]
    /\ st' = [st EXCEPT ![u] = "waiting"]
    /\ UNCHANGED << disk, failed_log, pc, page_st, job_urls, pending,
                    completed_count, failed_jobs, progress_lock, results_lock,
                    liveFrame >>

\* with self.progress_lock: entered
LiveJobLocks(u) ==
    /\ st[u] = "waiting"
    /\ progress_lock = "free"
    /\ progress_lock' = "held"
    /\ st' = [st EXCEPT ![u] = "holding"]
    /\ UNCHANGED << disk, failed_log, pc, page_st, job_urls, result, pending,
                    completed_count, failed_jobs, results_lock, liveFrame >>

\* the counter is incremented and printed, the lock is released and the
\* worker returns
LiveJobUnlocks(u) ==
    /\ st[u] = "holding"
    /\ completed_count' = completed_count + 1
    /\ progress_lock' = Released
    /\ st' = [st EXCEPT ![u] = "returned"]
    /\ UNCHANGED << disk, failed_log, pc, page_st, job_urls, result, pending,
                    failed_jobs, results_lock, liveFrame >>

\* the loop of run() takes a finished future; a record is saved, or the save
\* fails, before any lock is taken
LiveMainTakes(u) ==
    /\ pc = "jobs"
    /\ st[u] \in {"returned", "raised"}
    /\ \A v \in job_urls : st[v] \notin {"taken", "recording"}
    /\ IF st[u] = "returned" /\ result[u].kind = "job"
         THEN \/ /\ pending' = [pending EXCEPT
                       ![u] = ReconciledRecord(result[u], disk[IdOf(u)], run)]
                 /\ disk' = [disk EXCEPT ![IdOf(u)] = pending'[u]]
              \/ /\ pending' = pending
                 /\ disk' \in {disk, [disk EXCEPT ![IdOf(u)] = Corrupt]}
         ELSE UNCHANGED << disk, pending >>
    /\ st' = [st EXCEPT ![u] = "taken"]
    /\ UNCHANGED << failed_log, pc, page_st, job_urls, result, completed_count,
                    failed_jobs, progress_lock, results_lock, liveFrame >>

\* with self.results_lock: entered
LiveMainLocks(u) ==
    /\ st[u] = "taken"
    /\ results_lock = "free"
    /\ results_lock' = "held"
    /\ st' = [st EXCEPT ![u] = "recording"]
    /\ UNCHANGED << disk, failed_log, pc, page_st, job_urls, result, pending,
                    completed_count, failed_jobs, progress_lock, liveFrame >>

\* scraped_jobs or failed_jobs is updated and the lock is released
LiveMainUnlocks(u) ==
    /\ st[u] = "recording"
    /\ results_lock' = Released
    /\ IF pending[u] # NoResult
         THEN /\ st' = [st EXCEPT ![u] = "saved"]
              /\ failed_jobs' = failed_jobs
         ELSE /\ st' = [st EXCEPT ![u] = "failed"]
              /\ failed_jobs' = Append(failed_jobs, FailureRecord(u, "error", run))
    /\ UNCHANGED << disk, failed_log, pc, page_st, job_urls, result, pending,
                    completed_count, progress_lock, liveFrame >>

\* the pool is drained: the failure log is written and run() returns
LiveFinish ==
    /\ pc = "jobs"
    /\ \A u \in job_urls : st[u] \in {"saved", "failed"}
    /\ failed_log' = WriteFailedLog(failed_log, failed_jobs)
    /\ pc' = "done"
    /\ UNCHANGED << disk, page_st, job_urls, st, result, pending,
                    completed_count, failed_jobs, progress_lock, results_lock,
                    liveFrame >>

NextLive ==
    \/ \E p \in DOMAIN page_st : LivePageStart(p)
    \/ \E p \in DOMAIN page_st : LivePageSlept(p)
    \/ \E p \in DOMAIN page_st : LivePageResponds(p)
    \/ \E p \in DOMAIN page_st : LivePageLocks(p)
    \/ \E p \in DOMAIN page_st : LivePageUnlocks(p)
    \/ \E p \in DOMAIN page_st : LivePageCollected(p)
    \/ LiveDiscoveryReturns
    \/ \E u \in job_urls : LiveJobStart(u)
    \/ \E u \in job_urls : LiveJobSlept(u)
    \/ \E u \in job_urls : LiveJobResponds(u)
    \/ \E u \in job_urls : LiveJobLocks(u)
    \/ \E u \in job_urls : LiveJobUnlocks(u)
    \/ \E u \in job_urls : LiveMainTakes(u)
    \/ \E u \in job_urls : LiveMainLocks(u)
    \/ \E u \in job_urls : LiveMainUnlocks(u)
    \/ LiveFinish

\* the threads are scheduled, every sleep ends and every request returns or
\* times out: a step that can be taken is not put off for ever
SpecLive == InitLive /\ [][NextLive]_vars /\ WF_vars(NextLive)

(***************************************************************************)
(* The skill-count scraper (job_scraper_enhanced.py) on its own: a skill   *)
(* tree, one scraping task per leaf, finished in any order, and the tree   *)
(* with counts built from what the tasks recorded.  A value of the tree is *)
(* a string (a skill id) or a dict of further values.                      *)
(***************************************************************************)
\* isinstance(value, str)
Leaf(skill_id) == [type |-> "str", value |-> skill_id]

\* isinstance(value, dict)
Branch(items) == [type |-> "dict", value |-> items]

SkillIds == {"s1", "s2"}

\* data.items(): the keys of a dict, in the order of the JSON file
KeyOrder == <<"a", "b">>

\* the dicts under "a" nest up to d branches deep; "b", when present, is a skill
RECURSIVE TreesOfDepth(_)
TreesOfDepth(d) ==
    LET under_a == {Leaf(x) : x \in SkillIds} \cup
                   (IF d = 0 THEN {} ELSE {Branch(t) : t \in TreesOfDepth(d - 1)})
    IN {[k \in {"a"} |-> av] : av \in under_a} \cup
       {[k \in {"a", "b"} |-> IF k = "a" THEN av ELSE Leaf(x)] :
           av \in under_a, x \in SkillIds}

\* the trees above, and trees with two branches side by side
SkillTrees ==
    TreesOfDepth(MaxDepth) \cup
    {[k \in {"a", "b"} |-> Branch(t)] : t \in TreesOfDepth(0)}

\* _find_leaf_nodes: (key, value, current_path) of every leaf, in file order;
\* `keys` are the keys of `data` still to visit
RECURSIVE find_leaf_nodes(_, _, _)
find_leaf_nodes(data, path, keys) ==
    IF keys = <<>> THEN <<>>
    ELSE LET key == Head(keys)
             rest == find_leaf_nodes(data, path, Tail(keys))
         IN IF key \notin DOMAIN data THEN rest
            ELSE IF data[key].type = "str"
              THEN << [skill |-> key, skill_id |-> data[key].value,
                       path |-> Append(path, key)] >> \o rest
            ELSE find_leaf_nodes(data[key].value, Append(path, key), KeyOrder)
                    \o rest

\* item.get(field, 0)
Get(item, field) == IF field \in DOMAIN item THEN item[field] ELSE 0

\* sum(item.get(field, 0) for item in child_data.values())
RECURSIVE SumOf(_, _, _)
SumOf(child_data, keys, field) ==
    IF keys = {} THEN 0
    ELSE LET k == CHOOSE x \in keys : TRUE
         IN Get(child_data[k], field) + SumOf(child_data, keys \ {k}, field)

\* as process_tree_with_counts, had a branch summed the counts of its own
\* leaves only
RECURSIVE process_tree_with_counts_OwnLeaves(_, _)
process_tree_with_counts_OwnLeaves(data, counts) ==
    [key \in DOMAIN data |->
        IF data[key].type = "str"
          THEN [id |-> data[key].value,
                job_count |-> Get(counts, data[key].value),
                type |-> "leaf"]
        ELSE LET child_data ==
                    process_tree_with_counts_OwnLeaves(data[key].value, counts)
             IN [children |-> child_data,
                 total_jobs |-> SumOf(child_data, DOMAIN child_data, "job_count"),
                 type |-> "branch"]]

\* process_tree_with_counts(data, job_counts)
RECURSIVE process_tree_with_counts(_, _)
process_tree_with_counts(data, counts) ==
    [key \in DOMAIN data |->
        IF data[key].type = "str"
          THEN [id |-> data[key].value,
                job_count |-> Get(counts, data[key].value),
                type |-> "leaf"]
        ELSE LET child_data == process_tree_with_counts(data[key].value, counts)
             IN [children |-> child_data,
                 total_jobs |-> SumOf(child_data, DOMAIN child_data, "job_count")
                                + SumOf(child_data, DOMAIN child_data, "total_jobs"),
                 type |-> "branch"]]

\* run() up to the pool: the tree is loaded, its leaves are listed and cut by
\* limit (0: not given), and one task is submitted per leaf
InitTree ==
    /\ disk = [id \in JobIds |-> Absent]
    /\ failed_log = Absent
    /\ run = 1
    /\ fetches = 0
    /\ pc = "scraping"
    /\ max_workers = MaxWorkers
    /\ total_pages = 0
    /\ page_st = NoPages
    /\ page_res = NoPages
    /\ all_job_urls = {}
    /\ job_urls = {}
    /\ original_data \in SkillTrees
    /\ \E limit \in {0, 1} :
          LET found == find_leaf_nodes(original_data, <<>>, KeyOrder)
          IN leaf_nodes = IF limit # 0 THEN SubSeq(found, 1, Min(limit, Len(found)))
                          ELSE found
    /\ st = [i \in 1..Len(leaf_nodes) |-> "queued"]
    /\ response = NoTasks
    /\ result = [i \in 1..Len(leaf_nodes) |-> NoResult]
    /\ pending = NoTasks
    /\ completed_count = 0
    /\ total_count = Len(leaf_nodes)
    /\ successful_jobs = 0
    /\ scraped_jobs = {}
    /\ failed_jobs = <<>>
    /\ job_counts = EmptyDict
    /\ enhanced_tree = EmptyDict
    /\ pg_links = <<>>
    /\ pg_i = 0
    /\ job_urls_by_id = EmptyDict
    /\ html = NoCount
    /\ NoPlan
    /\ clock = 0
    /\ NoLocks
    /\ NoPacing

\* what the steps of this unit leave alone
treeFrame ==
    << disk, failed_log, run, fetches, max_workers, total_pages, page_st,
       page_res, all_job_urls, job_urls, response, pending, total_count,
       successful_jobs, scraped_jobs, failed_jobs, pg_links, pg_i,
       job_urls_by_id, html, clock, progress_lock, results_lock, max_pages,
       page_data, thread_ident, delay, slept, original_data, leaf_nodes >>

\* the task of leaf i has returned its result, the count of the page or 0 with
\* an error status, and the loop of run() records it under the skill id
SkillScraped(i) ==
    /\ pc = "scraping"
    /\ st[i] = "queued"
    /\ \E job_count \in 0..MaxCount :
          /\ result' = [result EXCEPT ![i] = [kind |-> "result",
                                             job_count |-> job_count]]
          /\ job_counts' =
                [x \in DOMAIN job_counts \cup {leaf_nodes[i].skill_id} |->
                    IF x = leaf_nodes[i].skill_id THEN job_count
                    ELSE job_counts[x]]
    /\ completed_count' = completed_count + 1
    /\ st' = [st EXCEPT ![i] = "done"]
    /\ UNCHANGED << pc, enhanced_tree, treeFrame >>

\* future.result() raised: a "Thread error" result, and no count recorded
SkillRaised(i) ==
    /\ pc = "scraping"
    /\ st[i] = "queued"
    /\ result' = [result EXCEPT ![i] = [kind |-> "thread_error", job_count |-> 0]]
    /\ st' = [st EXCEPT ![i] = "done"]
    /\ UNCHANGED << pc, job_counts, completed_count, enhanced_tree, treeFrame >>

\* the pool is drained: the tree with counts is built
BuildTree ==
    /\ pc = "scraping"
    /\ \A i \in DOMAIN st : st[i] = "done"
    /\ enhanced_tree' = process_tree_with_counts(original_data, job_counts)
    /\ pc' = "built"
    /\ UNCHANGED << st, result, job_counts, completed_count, treeFrame >>

NextTree ==
    \/ \E i \in DOMAIN st : SkillScraped(i)
    \/ \E i \in DOMAIN st : SkillRaised(i)
    \/ BuildTree

SpecTree == InitTree /\ [][NextTree]_vars

(***************************************************************************)
(* Properties.                                                             *)
(***************************************************************************)
\* the step in which save_job_data writes the record of task u and returns True
SaveCommitted(u) == st[u] = "saving" /\ st'[u] = "saved"

JobPhaseEnded == pc = "jobs" /\ \A u \in job_urls : st[u] \in {"saved", "failed"}

FailuresOf(u) == {k \in 1..Len(failed_jobs) : failed_jobs[k].url = u}

FirstDiscovered(h) ==
    Len(h) = 1 /\ h[1].status = "active" /\ h[1].reason = "Job first discovered"

\* C1: after the first successful save of an active record for an id with no
\* file, every further successful save of an active record for that id leaves
\* the stored history at exactly the one "first discovered" entry: the first
\* save creates exactly that entry, and a save of an active record over a
\* stored active record holding exactly that entry writes the same history.
C1_IdempotentActiveSave ==
    [][\A u \in job_urls :
          (SaveCommitted(u) /\ result[u].is_active) =>
             LET prior == disk[IdOf(u)]
                 new == disk'[IdOf(u)]
             IN /\ prior.kind = "absent" => FirstDiscovered(new.status_history)
                /\ (prior.kind = "record" /\ prior.is_active
                      /\ FirstDiscovered(prior.status_history))
                     => new.status_history = prior.status_history]_vars

\* an id first saved in run 1 as active is saved again in run 2 and still
\* holds the single entry of run 1
C1_Witness ==
    /\ run = 2
    /\ \E u \in job_urls :
          /\ st[u] = "saved"
          /\ disk[IdOf(u)].kind = "record"
          /\ disk[IdOf(u)].is_active
          /\ disk[IdOf(u)].scraped_at = 2
          /\ FirstDiscovered(disk[IdOf(u)].status_history)
          /\ disk[IdOf(u)].status_history[1].timestamp = 1

\* C2: a successful save over a readable prior record stores the prior history
\* followed by one "inactive / became unavailable during re-scrape" entry when
\* the job went active -> inactive, by one "active / became available again
\* during re-scrape" entry when it went inactive -> active, and by nothing when
\* is_active is unchanged.
C2_TransitionDetection ==
    [][\A u \in job_urls :
          (SaveCommitted(u) /\ disk[IdOf(u)].kind = "record") =>
             LET prior == disk[IdOf(u)]
                 fresh == result[u]
                 new == disk'[IdOf(u)]
             IN new.status_history =
                  IF prior.is_active /\ ~fresh.is_active
                    THEN Append(prior.status_history,
                                [status |-> "inactive", timestamp |-> run,
                                 reason |-> "Job became unavailable during re-scrape"])
                  ELSE IF ~prior.is_active /\ fresh.is_active
                    THEN Append(prior.status_history,
                                [status |-> "active", timestamp |-> run,
                                 reason |-> "Job became available again during re-scrape"])
                  ELSE prior.status_history]_vars

\* prior active with one entry, fresh inactive: two entries, the second inactive
C2_Witness ==
    \E u \in job_urls :
       /\ st[u] = "saved"
       /\ disk[IdOf(u)].kind = "record"
       /\ ~disk[IdOf(u)].is_active
       /\ Len(disk[IdOf(u)].status_history) = 2
       /\ disk[IdOf(u)].status_history[1].reason = "Job first discovered"
       /\ disk[IdOf(u)].status_history[2].status = "inactive"
       /\ disk[IdOf(u)].status_history[2].reason = "Job became unavailable during re-scrape"

\* C3: in every stored record no two consecutive status_history entries carry
\* the same status.
C3_NoConsecutiveDuplicates ==
    \A id \in JobIds :
       disk[id].kind = "record" =>
          \A k \in 1..(Len(disk[id].status_history) - 1) :
             disk[id].status_history[k].status # disk[id].status_history[k + 1].status

\* a stored history of two entries: a job first seen unavailable, then active
C3_Witness ==
    \E id \in JobIds :
       /\ disk[id].kind = "record"
       /\ Len(disk[id].status_history) >= 2
       /\ disk[id].status_history[1].status = "inactive"
       /\ disk[id].status_history[2].status = "active"

\* C4: the first successful save of an id leaves a non-empty status_history
\* whose first entry is the "first discovered" entry (stated for the saves of
\* the first run on an empty directory, where a save of an id not yet in
\* scraped_jobs is the first successful one).
C4_FirstSaveCreatesDiscoveryEntry ==
    [][\A u \in job_urls :
          (SaveCommitted(u) /\ run = 1 /\ IdOf(u) \notin scraped_jobs) =>
             LET new == disk'[IdOf(u)]
             IN /\ Len(new.status_history) >= 1
                /\ new.status_history[1].status = "active"
                /\ new.status_history[1].reason = "Job first discovered"]_vars

\* C5: a save of an active record over a file that does not parse stores what
\* a save with no file stores: the single "first discovered" entry.
C5_CorruptPriorIsFirstDiscovery ==
    [][\A u \in job_urls :
          (SaveCommitted(u) /\ disk[IdOf(u)].kind = "corrupt" /\ result[u].is_active) =>
             disk'[IdOf(u)] =
                ReconciledRecord(result[u], Absent, run)]_vars

\* C6: a task that fails leaves the batch running and the other tasks, the
\* files and the success bookkeeping as they are (a failed write touches only
\* its own file); the batch ends only when every task is resolved; and a task
\* that is saved has its record in its file and its id in scraped_jobs.
C6_PoolFaultIsolation ==
    [][/\ \A u \in job_urls :
            (u \in DOMAIN st' /\ st[u] # "failed" /\ st'[u] = "failed") =>
               /\ pc' = "jobs"
               /\ \A v \in job_urls \ {u} :
                     st'[v] = st[v] /\ result'[v] = result[v] /\ pending'[v] = pending[v]
               /\ \A id \in JobIds \ {IdOf(u)} : disk'[id] = disk[id]
               /\ st[u] # "saving" => disk' = disk
               /\ successful_jobs' = successful_jobs
               /\ scraped_jobs' = scraped_jobs
       /\ (pc = "jobs" /\ pc' # "jobs") => JobPhaseEnded
       /\ \A u \in job_urls :
            SaveCommitted(u) =>
               /\ disk'[IdOf(u)].kind = "record"
               /\ disk'[IdOf(u)].url = u
               /\ disk'[IdOf(u)].is_active = result[u].is_active
               /\ IdOf(u) \in scraped_jobs'
               /\ pc' = "jobs"]_vars

\* a batch of two jobs ends with one task failed and the other one stored
C6_Witness ==
    /\ JobPhaseEnded
    /\ \E u, v \in job_urls :
          /\ IdOf(u) # IdOf(v)
          /\ st[u] = "failed"
          /\ st[v] = "saved"
          /\ disk[IdOf(u)].kind = "absent"
          /\ disk[IdOf(v)].kind = "record"
          /\ disk[IdOf(v)].url = v

\* C7: during the job-detail phase every resolved task is counted exactly
\* once, as a success or as one FailureRecord of its URL, so that at the end
\* of the phase successful_jobs + len(failed_jobs) = total_count.
C7_OneOutcomePerTask ==
    pc = "jobs" =>
       /\ successful_jobs = Cardinality({u \in job_urls : st[u] = "saved"})
       /\ Len(failed_jobs) = Cardinality({u \in job_urls : st[u] = "failed"})
       /\ \A u \in job_urls :
             Cardinality(FailuresOf(u)) = IF st[u] = "failed" THEN 1 ELSE 0
       /\ total_count = Cardinality(job_urls)
       /\ JobPhaseEnded => successful_jobs + Len(failed_jobs) = total_count

\* the phase ends with one success and one failure out of two tasks
C7_Witness ==
    /\ JobPhaseEnded
    /\ total_count = 2
    /\ successful_jobs = 1
    /\ Len(failed_jobs) = 1

\* C8: the set returned by get_job_urls_from_search_pages holds at most one
\* URL per job identifier.
C8_DiscoveredSetUniqueById ==
    DiscoveryReturns =>
       \A u, v \in all_job_urls : IdOf(u) = IdOf(v) => u = v

C10_SavesNeverOverlap ==
    /\ [](\A u, v \in job_urls :
             (u # v /\ IdOf(u) = IdOf(v)) => ~(st[u] = "saving" /\ st[v] = "saving"))
    /\ [][\A u \in job_urls :
             SaveCommitted(u) =>
                disk'[IdOf(u)] = ReconciledRecord(result[u], disk[IdOf(u)], run)]_vars

\* two URLs of one job in the job list: one is being saved while the other has
\* returned and waits for the main thread
C10_Witness ==
    \E u, v \in job_urls :
       /\ u # v
       /\ IdOf(u) = IdOf(v)
       /\ st[u] = "saving"
       /\ st[v] = "returned"
       /\ result[v].kind = "job"

\* the FailureRecords a failure log holds; a log that was never written holds none
LogEntries(log) == IF log.kind = "file" THEN log.entries ELSE <<>>

\* C11: when a run that scraped jobs completes, the failure log on disk holds
\* exactly the FailureRecords of that run, so a run without failures leaves no
\* entry of an earlier run in it.
C11_FailureLogOfThisRunOnly ==
    [][(pc = "jobs" /\ pc' = "done") => LogEntries(failed_log') = failed_jobs]_vars

\* C12: every failure of a URL becomes a FailureRecord when its task ends and
\* leaves the run going: a failed fetch of the first result page and of a
\* later result page as well as a failed job task (request, parsing,
\* identifier, write); the record of the first page is in the log the run
\* leaves behind.
C12_EveryFailureIsLogged ==
    [][/\ (pc = "start" /\ pc' = "done") =>
             \E k \in 1..Len(LogEntries(failed_log')) :
                LogEntries(failed_log')[k].timestamp = run
       /\ \A p \in DOMAIN page_st :
             (page_st[p] = "running" /\ page_st'[p] = "errored") =>
                /\ Len(failed_jobs') = Len(failed_jobs) + 1
                /\ pc' = "pages"
       /\ \A u \in job_urls :
             (u \in DOMAIN st' /\ st[u] # "failed" /\ st'[u] = "failed") =>
                /\ Len(failed_jobs') = Len(failed_jobs) + 1
                /\ failed_jobs'[Len(failed_jobs')].url = u
                /\ pc' = "jobs"]_vars

\* C13: no job-detail task exists while the discovery is under way; the job
\* tasks are created in a step taken when every page task has been fetched (or
\* has failed) and collected, from the URL set as it is then; and no page task
\* is left once job tasks exist.
C13_DiscoveryBeforeDetails ==
    /\ [](pc \in {"start", "pages"} => (job_urls = {} /\ DOMAIN st = {}))
    /\ [](DOMAIN st # {} => DOMAIN page_st = {})
    /\ [][(DOMAIN st = {} /\ DOMAIN st' # {}) =>
             /\ \A p \in DOMAIN page_st : page_st[p] = "processed"
             /\ job_urls' \subseteq all_job_urls
             /\ DOMAIN st' = job_urls'
             /\ \A u \in job_urls' : st'[u] = "queued"]_vars

\* two job tasks run at the same time on two URLs of one job, which only the
\* aggregation of page 1 with a collected page 2 puts in one job list
C13_Witness ==
    /\ pc = "jobs"
    /\ \E u, v \in job_urls :
          /\ u # v
          /\ IdOf(u) = IdOf(v)
          /\ st[u] = "running"
          /\ st[v] = "running"

\* url, is_active and the statuses of the history of what file holds
View(file) ==
    IF file.kind = "record"
      THEN [kind |-> "record", url |-> file.url, is_active |-> file.is_active,
            statuses |-> [k \in 1..Len(file.status_history) |->
                             file.status_history[k].status]]
      ELSE [kind |-> file.kind, url |-> Href(FALSE, <<>>), is_active |-> FALSE,
            statuses |-> <<>>]

\* the files after the main thread has saved the returned record of task u
SavedOn(files, u) ==
    [files EXCEPT ![IdOf(u)] = ReconciledRecord(result[u], files[IdOf(u)], run)]

\* C14: the result does not depend on the order in which concurrent tasks
\* complete: whenever two page tasks have returned, collecting them in either
\* order gives the same URL set, and whenever two job tasks have returned a
\* record, saving them in either order leaves, for every id, a record with the
\* same url, is_active and history statuses.
C14_OrderIndependence ==
    /\ \A p, q \in DOMAIN page_st :
          (p # q /\ page_st[p] \in {"returned", "errored"}
                 /\ page_st[q] \in {"returned", "errored"}) =>
             AddNewUrls(AddNewUrls(all_job_urls, page_res[p]), page_res[q])
               = AddNewUrls(AddNewUrls(all_job_urls, page_res[q]), page_res[p])
    /\ \A u, v \in job_urls :
          (u # v /\ MainIdle /\ st[u] = "returned" /\ st[v] = "returned"
                 /\ result[u].kind = "job" /\ result[v].kind = "job") =>
             \A id \in JobIds :
                View(SavedOn(SavedOn(disk, u), v)[id])
                  = View(SavedOn(SavedOn(disk, v), u)[id])

\* C15: a stored record is never lost: in every step, an id whose file holds a
\* record before the step has a file holding a record after it, whether the
\* job is then seen unavailable, its fetch fails or its write fails.
C15_RecordsAreNeverLost ==
    [][\A id \in JobIds : disk[id].kind = "record" => disk'[id].kind = "record"]_vars

\* C16: whenever the title extracted from the answered detail page is the
\* sentinel "Job Unavailable", the value returned by scrape_job_details has
\* is_active false, exactly one status_history entry, of status inactive,
\* no type_of_work, salary, hours_per_week, date_updated or job_overview and
\* no skill_requirements, whatever the page holds besides.
C16_UnavailableShortCircuit ==
    \A u \in job_urls :
       (st[u] = "returned" /\ response[u].kind = "page"
          /\ ExtractTitle(response[u]) = Sentinel) =>
          /\ result[u].kind = "job"
          /\ result[u].is_active = FALSE
          /\ Len(result[u].status_history) = 1
          /\ result[u].status_history[1].status = "inactive"
          /\ result[u].type_of_work = Null
          /\ result[u].salary = Null
          /\ result[u].hours_per_week = Null
          /\ result[u].date_updated = Null
          /\ result[u].job_overview = Null
          /\ result[u].skill_requirements = <<>>

\* the sentinel is found under the last title selector of a page that carries
\* every label and skill links, and the task has returned
C16_Witness ==
    \E u \in job_urls :
       /\ st[u] = "returned"
       /\ response[u].kind = "page"
       /\ response[u].titles[1] # Sentinel
       /\ ExtractTitle(response[u]) = Sentinel
       /\ response[u].salary # Null
       /\ response[u].job_overview # Null
       /\ response[u].skill_links # <<>>
       /\ result[u].kind = "job"

\* C17: for a total M >= 1 shown on page 1 the page count is the least n
\* with 30 * n >= M, which is 32 for 954; without the count pattern it is the
\* fallback of 100 pages.
C17_PageCountIsCeiling ==
    pc = "counted" =>
       LET M == extract_total_jobs_from_page(html)
       IN /\ (html.kind = "count" /\ M >= 1) =>
                /\ 30 * total_pages >= M
                /\ 30 * (total_pages - 1) < M
          /\ html = CountText(<<"9", "5", "4">>) => total_pages = 32
          /\ html = CountText(<<"3", "0">>) => total_pages = 1
          /\ html = CountText(<<"3", "1">>) => total_pages = 2
          /\ html.kind = "none" => total_pages = 100

\* "Displaying 30 out of 954 jobs" has been counted as 32 pages
C17_Witness ==
    /\ pc = "counted"
    /\ html = CountText(<<"9", "5", "4">>)
    /\ extract_total_jobs_from_page(html) = 954
    /\ total_pages = 32

\* C18: for a URL from which no job id can be derived, no request is issued
\* (no response is ever held for its task), the value scrape_job_details
\* returns is the failure "Could not extract job ID from URL", the task is
\* never saved and no record file is written, and the run ends with a
\* FailureRecord of that URL in the failure log.
C18_NoIdFailsWithoutRequest ==
    /\ [](\A u \in job_urls :
            IdOf(u) = None =>
               /\ response[u] = NoResult
               /\ st[u] = "returned" =>
                     result[u] = ErrorResult("Could not extract job ID from URL", None, u)
               /\ st[u] \notin {"saving", "saved"}
               /\ st[u] = "failed" => Cardinality(FailuresOf(u)) = 1
               /\ \A id \in JobIds : disk[id] = Absent)
    /\ [][(pc = "jobs" /\ pc' = "done") =>
             \A u \in job_urls :
                IdOf(u) = None =>
                   /\ Cardinality({k \in 1..Len(LogEntries(failed_log')) :
                                      LogEntries(failed_log')[k].url = u}) = 1
                   /\ disk' = disk]_vars

\* the task of a URL without a job id has been resolved as the identifier
\* failure, without a response
C18_Witness ==
    /\ JobPhaseEnded
    /\ \E u \in job_urls :
          /\ IdOf(u) = None
          /\ st[u] = "failed"
          /\ completed_count = 1
          /\ Len(failed_jobs) = 1
          /\ failed_jobs[1].url = u
          /\ failed_jobs[1].error = "Could not extract job ID from URL"

C20_CounterCountsEveryTask ==
    /\ [](pc = "jobs" =>
            /\ completed_count <= total_count
            /\ completed_count =
                  Cardinality({u \in job_urls : st[u] \notin {"queued", "running"}})
            /\ JobPhaseEnded => completed_count = total_count)
    /\ [][\A u \in job_urls :
             (st[u] = "running" /\ st'[u] # "running") =>
                completed_count' = completed_count + 1]_vars

\* C21: within a run a job task goes through the pool once: a task that has
\* left the queue is never queued again, a task that has ended never runs
\* again (so its URL is requested at most once), a failed task stays failed,
\* and every failed URL has exactly one FailureRecord, every other URL none.
C21_NoRetry ==
    /\ [][\A u \in job_urls :
             u \in DOMAIN st' =>
                /\ st[u] # "queued" => st'[u] # "queued"
                /\ st[u] \notin {"queued", "running"} => st'[u] # "running"
                /\ response[u] # NoResult => response'[u] \in {response[u], NoResult}
                /\ st[u] = "failed" => st'[u] = "failed"]_vars
    /\ [](pc = "jobs" =>
            \A u \in job_urls :
               Cardinality(FailuresOf(u)) = IF st[u] = "failed" THEN 1 ELSE 0)

\* the batch has ended with a task whose request failed: one FailureRecord
C21_Witness ==
    /\ JobPhaseEnded
    /\ \E u \in job_urls :
          /\ st[u] = "failed"
          /\ Cardinality(FailuresOf(u)) = 1
          /\ \E k \in FailuresOf(u) : failed_jobs[k].error = "Request failed"

\* C22: the pacing sleep of a page task and of a job task is at least half the
\* delay and at most the delay (a jitter factor between 0.5 and 1.0), whatever
\* the identity of the worker thread.
C22_JitterWithinDelay ==
    pc \in {"page_slept", "job_slept"} =>
       /\ slept >= 10 * delay
       /\ slept <= 20 * delay

\* C23: every skill string of a returned record, whichever of the three
\* extractions produced it, is non-empty, longer than two characters and
\* without the word copyright.
C23_SkillsAreFiltered ==
    \A u \in job_urls :
       (st[u] = "returned" /\ result[u].kind = "job") =>
          \A k \in 1..Len(result[u].skill_requirements) :
             KeepSkill(result[u].skill_requirements[k])

\* C24: when the page has no skill links and nothing after the heading, the
\* skills of an available job are the items of the text span before its
\* footer marker, split on commas and on line breaks, one entry per item that
\* passes the filter.
C24_TextFallbackSplitsItems ==
    \A u \in job_urls :
       (/\ st[u] = "returned"
        /\ response[u].kind = "page"
        /\ result[u].kind = "job"
        /\ result[u].is_active
        /\ response[u].skill_links = <<>>
        /\ response[u].section_elems = <<>>) =>
          result[u].skill_requirements =
              SelectSeq(SplitOn(CutAtMarker(response[u].text_span), Separators),
                        KeepSkill)

C26_FailedFetchLeavesRecord ==
    (pc = "jobs" /\ run = 1) =>
       \A u \in job_urls :
          (/\ st[u] = "failed"
           /\ IdOf(u) # None
           /\ \E k \in FailuresOf(u) :
                 failed_jobs[k].error \in {"Request failed", "Parsing failed"}) =>
             /\ disk[IdOf(u)] = Absent
             /\ IdOf(u) \notin scraped_jobs

\* C27: in every record on disk whose status_history is not empty, the status
\* of the last entry is "active" exactly when is_active is true.
C27_LastEntryAgreesWithFlag ==
    \A id \in JobIds :
       (disk[id].kind = "record" /\ disk[id].status_history # <<>>) =>
          LET h == disk[id].status_history
          IN (h[Len(h)].status = "active") <=> disk[id].is_active

\* a stored record has gone from active to inactive: its two entries end with
\* the inactive one and is_active is false
C27_Witness ==
    \E id \in JobIds :
       /\ disk[id].kind = "record"
       /\ Len(disk[id].status_history) = 2
       /\ disk[id].status_history[1].status = "active"
       /\ disk[id].status_history[2].status = "inactive"
       /\ ~disk[id].is_active

\* C28: when the request for page 1 fails, and when discovery has collected
\* every page and holds no URL, the run ends at once: no job task is
\* submitted, no record is written and no failure log is written.
C28_NoUrlsEndsRun ==
    [][/\ (pc = "start" /\ pc' # "pages") =>
             /\ pc' = "done"
             /\ job_urls' = {} /\ fetches' = fetches
             /\ disk' = disk /\ failed_log' = failed_log
       /\ (pc = "pages" /\ all_job_urls = {} /\ pc' # "pages") =>
             /\ pc' = "done"
             /\ job_urls' = {} /\ fetches' = fetches
             /\ disk' = disk /\ failed_log' = failed_log]_vars

\* the first run has ended without a job task: the directory is as empty as
\* it was and there is no failure log
C28_Witness ==
    /\ pc = "done"
    /\ run = 1
    /\ fetches = 0
    /\ failed_log = Absent
    /\ \A id \in JobIds : disk[id] = Absent

\* C29: with N the computed page count, reduced to max_pages when max_pages
\* is given and smaller, the list of page tasks holds exactly one task for
\* each page p of 2..N, at offset (p - 1) * 30; the offsets are pairwise
\* distinct, no task is for page 1 (fetched once, by the main thread) or for
\* a page beyond N, and the list is empty when N = 1.  (There are N - 1
\* tasks, their pages are N - 1 different pages of 2..N, and the offset of
\* each follows from its page: so every page of 2..N has one task, and two
\* tasks never share an offset.)
C29_PageTaskSet ==
    pc = "planned" =>
       LET computed == ComputedPages(extract_total_jobs_from_page(html))
           N == total_pages
           tasks == 1..Len(page_data)
       IN /\ N = IF max_pages # 0 /\ max_pages < computed THEN max_pages
                 ELSE computed
          /\ \A k \in tasks :
                /\ page_data[k].page_num \in 2..N
                /\ page_data[k].offset = (page_data[k].page_num - 1) * 30
          /\ Len(page_data) = N - 1
          /\ Cardinality({page_data[k].page_num : k \in tasks}) = N - 1
          /\ Cardinality({page_data[k].offset : k \in tasks}) = Len(page_data)
          /\ N = 1 => page_data = <<>>

\* 954 jobs are 32 pages, cut to 2 by max_pages: the one task is page 2 at
\* offset 30
C29_Witness ==
    /\ pc = "planned"
    /\ html = CountText(<<"9", "5", "4">>)
    /\ max_pages = 2
    /\ total_pages = 2
    /\ page_data = << [page_num |-> 2, offset |-> 30] >>

\* C30: a successful save stores the whole fresh record: every field of the
\* stored value other than status_history is the value of the fresh
\* extraction, a field the fresh extraction left empty included, and the
\* stored value is the reconciled record that was handed to the write.
C30_WholeRecordOverwrite ==
    [][\A u \in job_urls :
          SaveCommitted(u) =>
             LET new == disk'[IdOf(u)]
             IN /\ new = pending[u]
                /\ new.kind = "record"
                /\ [new EXCEPT !.status_history = result[u].status_history,
                               !.kind = "job"] = result[u]]_vars

\* a job stored with its salary, overview and skills is saved again as
\* unavailable: the stored record has none of them, and both history entries
C30_Witness ==
    \E id \in JobIds :
       /\ disk[id].kind = "record"
       /\ disk[id].scraped_at = 2
       /\ Len(disk[id].status_history) = 2
       /\ disk[id].status_history[1].reason = "Job first discovered"
       /\ disk[id].title = Sentinel
       /\ disk[id].salary = Null
       /\ disk[id].job_overview = Null
       /\ disk[id].skill_requirements = <<>>

\* C31: when the write of save_job_data fails, the task ends as a failure with
\* one more FailureRecord for its URL, and a record that was stored for its
\* id before the save is still there, with the content it had.
C31_FailedWriteKeepsRecord ==
    [][\A u \in job_urls :
          (st[u] = "saving" /\ u \in DOMAIN st' /\ st'[u] = "failed") =>
             /\ Len(failed_jobs') = Len(failed_jobs) + 1
             /\ failed_jobs'[Len(failed_jobs')].url = u
             /\ disk[IdOf(u)].kind = "record" => disk'[IdOf(u)] = disk[IdOf(u)]]_vars

\* C32: in every record on disk the timestamps of the status_history entries
\* never decrease along the sequence, whatever the runs, the two tasks of an
\* id and the failures before, for a clock that does not go backwards.
C32_TimestampsNonDecreasing ==
    \A id \in JobIds :
       disk[id].kind = "record" =>
          LET h == disk[id].status_history
          IN \A i, j \in 1..Len(h) : i < j => h[i].timestamp <= h[j].timestamp

\* a stored history of three entries, the last one later than the first
C32_Witness ==
    \E id \in JobIds :
       /\ disk[id].kind = "record"
       /\ Len(disk[id].status_history) = 3
       /\ disk[id].status_history[1].timestamp < disk[id].status_history[3].timestamp

\* C33: run() always comes to its end, and at its end every page task has
\* been processed and every job task is a success or a failure; a lock is held
\* only by a task in its locked section, never by one that sleeps or waits for
\* a request, and by one task at a time.
C33_Termination ==
    /\ <>(pc = "done")
    /\ [](pc = "done" =>
            /\ \A p \in DOMAIN page_st : page_st[p] = "processed"
            /\ \A u \in job_urls : st[u] \in {"saved", "failed"})
    /\ [](LET holders == {p \in DOMAIN page_st : page_st[p] = "holding"}
                            \cup {u \in job_urls : st[u] = "holding"}
              recording == {u \in job_urls : st[u] = "recording"}
          IN /\ Cardinality(holders) = IF progress_lock = "held" THEN 1 ELSE 0
             /\ Cardinality(recording) = IF results_lock = "held" THEN 1 ELSE 0)

\* the run has ended after a job task was saved and another one failed
C33_Witness ==
    /\ pc = "done"
    /\ \E u, v \in job_urls : st[u] = "saved" /\ st[v] = "failed"
    /\ completed_count >= 1

\* the sum of the job_count of every leaf below the nodes of a tree with counts
RECURSIVE LeafTotal(_, _)
LeafTotal(nodes, keys) ==
    IF keys = {} THEN 0
    ELSE LET k == CHOOSE x \in keys : TRUE
             here == IF nodes[k].type = "leaf" THEN nodes[k].job_count
                     ELSE LeafTotal(nodes[k].children, DOMAIN nodes[k].children)
         IN here + LeafTotal(nodes, keys \ {k})

\* every branch, at any depth, totals the leaves below it
RECURSIVE BranchesTotalLeaves(_)
BranchesTotalLeaves(nodes) ==
    \A k \in DOMAIN nodes :
       nodes[k].type = "branch" =>
          /\ nodes[k].total_jobs =
                LeafTotal(nodes[k].children, DOMAIN nodes[k].children)
          /\ BranchesTotalLeaves(nodes[k].children)

\* every leaf, at any depth, has a count recorded for its skill id, or 0 when
\* no task of that id recorded one
RECURSIVE LeavesHaveScrapedCount(_)
LeavesHaveScrapedCount(nodes) ==
    \A k \in DOMAIN nodes :
       IF nodes[k].type = "leaf"
         THEN LET recorded == {i \in DOMAIN st :
                                  /\ leaf_nodes[i].skill_id = nodes[k].id
                                  /\ result[i].kind = "result"}
              IN IF recorded = {} THEN nodes[k].job_count = 0
                 ELSE nodes[k].job_count \in
                         {result[i].job_count : i \in recorded}
       ELSE LeavesHaveScrapedCount(nodes[k].children)

\* C34: in the tree built by process_tree_with_counts every branch node has a
\* total_jobs equal to the sum of the job_count of all the leaves of its
\* subtree, at any depth, and every leaf has the count scraped for its skill
\* id, or 0 when the task of the skill failed or the skill was not scraped.
C34_BranchTotalsLeafCounts ==
    pc = "built" =>
       /\ DOMAIN enhanced_tree = DOMAIN original_data
       /\ BranchesTotalLeaves(enhanced_tree)
       /\ LeavesHaveScrapedCount(enhanced_tree)

\* a branch inside a branch: the inner one has jobs, the outer one has more
C34_Witness ==
    /\ pc = "built"
    /\ "a" \in DOMAIN enhanced_tree
    /\ enhanced_tree["a"].type = "branch"
    /\ enhanced_tree["a"].children["a"].type = "branch"
    /\ enhanced_tree["a"].children["a"].total_jobs > 0
    /\ enhanced_tree["a"].total_jobs > enhanced_tree["a"].children["a"].total_jobs

====
